---- MODULE Spec2Model ----
(***************************************************************************)
(* Model of the model-comparison and selection engine of tcc_dsa_usp:      *)
(*   - comparar_modelos and its helpers (modelos/comparacao_modelos_       *)
(*     previsao.py), specification SpecCmp;                                *)
(*   - the pool selection _rodar_comparacao_300_selecionar_10, the final   *)
(*     ranking and the end of main (gerar_figuras_tcc.py), specification   *)
(*     Spec;                                                               *)
(*   - calcular_mape, specification SpecMet;                               *)
(*   - the prepared-series cache of PrevisorEstoqueSARIMA                  *)
(*     (previsoes/sarima_estoque.py), specification SpecPrep, and its      *)
(*     model cache in treinar_modelo, specification SpecTreino;            *)
(*   - run_comparison_for_sku, specification SpecRun;                      *)
(*   - the two score functions side by side, specification SpecScore;      *)
(*   - the checkpointed top-SKU run (modelos/comparacao_top_skus_          *)
(*     otimizado.py), specification SpecCkpt;                              *)
(*   - the walk-forward validation loop (validacao/validacao_walk_         *)
(*     forward_sarima.py), specification SpecWf.                           *)
(*                                                                         *)
(* Numbers.  Stock levels are read in hundredths of a unit (an integer v   *)
(* stands for v/100), so that the 0.01 thresholds of the code are 1.       *)
(* Forecasts and absolute errors are kept in a finer fixed point, ESCALA   *)
(* sub-units per hundredth, chosen so that the mean of up to 7 values is   *)
(* exact.  A MAE is the exact rational [num, den] = (sum of absolute       *)
(* errors in sub-units) / (number of points).                              *)
(***************************************************************************)
EXTENDS Integers, Sequences, FiniteSets, TLC

\* ------------------------------------------------------------------------
\* Bounds of the model
\* ------------------------------------------------------------------------
MaxPool == 22
MaxLen == 4

\* ------------------------------------------------------------------------
\* Program constants
\* ------------------------------------------------------------------------
N_CANDIDATOS == 300
N_MELHORES == 10
MIN_DIAS_SARIMA_ANUAL == 730
JANELA == 7
HORIZONTE_PADRAO == 30

\* sub-units per hundredth: lcm(1..7), so that means over 1..7 values are exact
ESCALA == 2 * 2 * 3 * 5 * 7
\* EPSILON_MAE_IGUAL = 0.01, in sub-units
EPSILON_MAE_IGUAL == 1 * ESCALA
\* the 0.01 of "s_teste < 0.01 or range_teste < 0.01", in hundredths
LIMIAR_CONSTANTE == 1

\* ------------------------------------------------------------------------
\* Generic helpers
\* ------------------------------------------------------------------------
Min2(a, b) == IF a <= b THEN a ELSE b
Max2(a, b) == IF a >= b THEN a ELSE b
Abs(x) == IF x < 0 THEN -x ELSE x
Range(s) == {s[i] : i \in DOMAIN s}

RECURSIVE Soma(_)
Soma(s) == IF s = <<>> THEN 0 ELSE s[1] + Soma(Tail(s))

\* Python slice s[a:b] of a sequence (0-based, end exclusive, clipped)
Fatia(s, a, b) ==
    LET ini == Min2(Max2(a, 0), Len(s))
        fim == Min2(Max2(b, 0), Len(s))
    IN  IF fim <= ini THEN <<>> ELSE SubSeq(s, ini + 1, fim)

\* exact rationals with positive denominators
Q(n, d) == [num |-> n, den |-> d]
MenorQ(a, b) == a.num * b.den < b.num * a.den
IgualQ(a, b) == a.num * b.den = b.num * a.den
SubQ(a, b) == Q(a.num * b.den - b.num * a.den, a.den * b.den)

\* min(...) and max(...) of a non-empty list of rationals
MinQ(s) == CHOOSE m \in Range(s) : \A o \in Range(s) : ~MenorQ(o, m)
MaxQ(s) == CHOOSE m \in Range(s) : \A o \in Range(s) : ~MenorQ(m, o)

\* ------------------------------------------------------------------------
\* State
\* ------------------------------------------------------------------------
VARIABLES
    \* --- _rodar_comparacao_300_selecionar_10 (gerar_figuras_tcc.py) ---
    top300_skus,        \* the argument: candidate SKUs, in the caller's order
    csv,                \* what run_comparison_for_sku yields for each SKU
    candidatos,         \* top300_skus[:N_CANDIDATOS]
    k,                  \* position of the phase-1 loop (1-based)
    lista_300,          \* results collected by phase 1
    fi,                 \* position of the phase-2 filter loop (1-based)
    elegiveis,          \* list of <<result, best_mae>>
    top10_resultados,   \* the selected list
    pc,                 \* position in the function
    insumos,            \* what the ranking reads for each SKU (sales, stock)
    df_elencacao,       \* the ranking returned to main
    log,                \* the messages written by _log, in order
    codigo_saida,       \* exit status of the process, once it has ended
    \* --- comparar_modelos (modelos/comparacao_modelos_previsao.py) ---
    serie,              \* the argument: the full series, in hundredths
    proporcao_treino,   \* the argument, in percent
    horizonte_previsao, \* the argument
    serie_treino,       \* local: training part
    serie_teste,        \* local: test part
    n_previsao,         \* local: effective horizon
    resultados,         \* local: the dict that is returned
    tentados,           \* history: variants whose fitting function was called
    desfechos,          \* history: <<variant, how its step ended>>
    relatorio,          \* what gerar_relatorio_comparacao showed and wrote
    identicas,          \* the pairs logged as having identical forecasts
    pc_cmp,             \* position in the function
    \* --- calcular_mape (modelos/comparacao_modelos_previsao.py) ---
    arg_y_real,         \* the argument y_real: actual values
    arg_y_previsto,     \* the argument y_previsto: predicted values
    mape,               \* the returned value
    pc_met,             \* position in the function
    \* --- PrevisorEstoqueSARIMA.preparar_serie_temporal (previsoes/sarima_estoque.py) ---
    series_cache,       \* self.series_cache: SKU -> prepared series
    chamada,            \* the arguments of the last call
    retorno,            \* the value returned by the last call
    \* --- run_comparison_for_sku (modelos/comparacao_modelos_previsao.py) ---
    run_presente,       \* whether the SKU has rows in the CSV
    run_n_obs,          \* len(serie) of the prepared series
    run_res,            \* the returned value
    pc_run,             \* position in the function
    \* --- State of PrevisorEstoqueSARIMA.treinar_modelo and its model cache ---
    cache_modelo,       \* modelo_<sku>.pkl of each SKU, NADA while the file does not exist
    cache_metadata,     \* metadata_<sku>.pkl of each SKU, NADA while the file does not exist
    modelos,            \* self.modelos
    arg_treino,         \* the arguments of the current call of treinar_modelo
    ret_treino,         \* what the call returned
    pc_treino,          \* "chamar" or "retornou"
    \* --- The two score functions applied to one triple (gerar_figuras_tcc.py, previsoes/teste_elencacao_3_skus.py) ---
    arg_score,          \* the triple (rentabilidade, nivel_urgencia, giro_futuro_previsto)
    ret_figuras,        \* what _score_elencacao returned
    ret_teste,          \* the score calcular_score_elencacao returned
    pc_score,           \* "chamar" or "retornou"
    \* --- The checkpointed top-SKU run (modelos/comparacao_top_skus_otimizado.py) ---
    ck_dados,           \* what the data hold for each SKU: "curta", "falha" or "ok"
    ck_arquivo,         \* checkpoint_skus.json: absent, readable with a list of SKUs, or unreadable
    ck_salvos,          \* the SKUs whose resultado_<sku>.json exists
    ck_fila,            \* top_skus still to be processed by the current run
    ck_local,           \* skus_processados inside salvar_checkpoint
    ck_historico,       \* history: every SKU that was ever readable in the checkpoint
    pc_ckpt,            \* "parado", "loop", "checkpoint" or "gravando"
    \* --- ValidacaoWalkForward.executar_validacao (validacao/validacao_walk_forward_sarima.py) ---
    wf_args,            \* the length of self.serie and tamanho_treino_inicial, tamanho_teste (in percent), passo
    wf_pos,             \* pos_treino_fim
    wf_fold,            \* fold
    wf_n_res,           \* len(self.resultados)
    wf_ultimo,          \* the entry of self.resultados appended last, NADA while there is none
    pc_wf               \* "inicio", "laco" or "fim"

varsPool == <<top300_skus, csv, candidatos, k, lista_300, fi, elegiveis,
              top10_resultados, pc, insumos, df_elencacao, log, codigo_saida>>

varsCmp == <<serie, proporcao_treino, horizonte_previsao, serie_treino,
             serie_teste, n_previsao, resultados, tentados, desfechos, relatorio,
             identicas, pc_cmp>>

varsMet == <<arg_y_real, arg_y_previsto, mape, pc_met>>

varsPrep == <<series_cache, chamada, retorno>>

varsRun == <<run_presente, run_n_obs, run_res, pc_run>>

varsTreino == <<cache_modelo, cache_metadata, modelos, arg_treino, ret_treino, pc_treino>>

varsScore == <<arg_score, ret_figuras, ret_teste, pc_score>>

varsCkpt == <<ck_dados, ck_arquivo, ck_salvos, ck_fila, ck_local, ck_historico, pc_ckpt>>

varsWf == <<wf_args, wf_pos, wf_fold, wf_n_res, wf_ultimo, pc_wf>>

\* what a step of one component leaves alone
varsForaPool == <<varsCmp, varsMet, varsPrep, varsRun, varsTreino, varsScore, varsCkpt, varsWf>>
varsForaCmp == <<varsPool, varsMet, varsPrep, varsRun, varsTreino, varsScore, varsCkpt, varsWf>>
varsForaMet == <<varsPool, varsCmp, varsPrep, varsRun, varsTreino, varsScore, varsCkpt, varsWf>>
varsForaPrep == <<varsPool, varsCmp, varsMet, varsRun, varsTreino, varsScore, varsCkpt, varsWf>>
varsForaRun == <<varsPool, varsCmp, varsMet, varsPrep, varsTreino, varsScore, varsCkpt, varsWf>>
varsForaTreino == <<varsPool, varsCmp, varsMet, varsPrep, varsRun, varsScore, varsCkpt, varsWf>>
varsForaScore == <<varsPool, varsCmp, varsMet, varsPrep, varsRun, varsTreino, varsCkpt, varsWf>>
varsForaCkpt == <<varsPool, varsCmp, varsMet, varsPrep, varsRun, varsTreino, varsScore, varsWf>>
varsForaWf == <<varsPool, varsCmp, varsMet, varsPrep, varsRun, varsTreino, varsScore, varsCkpt>>

vars == <<top300_skus, csv, candidatos, k, lista_300, fi, elegiveis,
          top10_resultados, pc, insumos, df_elencacao, log, codigo_saida, serie, proporcao_treino, horizonte_previsao,
          serie_treino, serie_teste, n_previsao, resultados, tentados, desfechos,
          relatorio, identicas, pc_cmp, arg_y_real, arg_y_previsto, mape, pc_met, series_cache,
          chamada, retorno,
          run_presente, run_n_obs, run_res, pc_run,
          cache_modelo, cache_metadata, modelos, arg_treino, ret_treino, pc_treino,
          arg_score, ret_figuras, ret_teste, pc_score,
          ck_dados, ck_arquivo, ck_salvos, ck_fila, ck_local, ck_historico, pc_ckpt,
          wf_args, wf_pos, wf_fold, wf_n_res, wf_ultimo, pc_wf>>

\* no value yet (None / not assigned)
NADA == [tipo |-> "nada"]

\* display names of the variants, as written in the 'modelo' field
NomeModelo(chave) ==
    CASE chave = "sarima_anual" -> "SARIMA Anual (m=365)"
      [] chave = "sarima_mensal" -> "SARIMA Mensal (m=30)"
      [] chave = "arima" -> "ARIMA Simples"
      [] chave = "media_movel" -> "Media Movel (7 dias)"
      [] chave = "exponencial" -> "Suavizacao Exponencial"

\* the five variants, and the key of a display name
TodasVariantes ==
    {"sarima_anual", "sarima_mensal", "arima", "media_movel", "exponencial"}
ChaveDe(nome) == CHOOSE c \in TodasVariantes : NomeModelo(c) = nome

\* ------------------------------------------------------------------------
\* Inputs of the pool run: what the CSV holds for each SKU
\* ------------------------------------------------------------------------
\* One row of 'metricas' as phase 2 reads it
Metrica(chave, num, den) == [modelo |-> NomeModelo(chave), mae |-> Q(num, den)]

\* The training series of a result, in whole units: only its last value
\* (the current stock) is read by the pool run
Estoques == <<0, 2, 4, 6, -2>>
TreinoDe(sku) == <<1, Estoques[(sku % Len(Estoques)) + 1]>>

\* The forecast of a variant, in whole units: three equal values that differ
\* from variant to variant and from SKU to SKU
PrevisaoPool(chave, sku) ==
    LET base == CASE chave = "sarima_anual" -> 50
                  [] chave = "sarima_mensal" -> 10
                  [] chave = "arima" -> 20
                  [] chave = "exponencial" -> 30
                  [] chave = "media_movel" -> 40
        v == base + 150 * (sku % 4)
    IN  <<v, v, v>>

\* One forecast for every variant that has a metric row
PrevisoesDe(sku, ms) ==
    [c \in {ChaveDe(ms[i].modelo) : i \in DOMAIN ms} |-> PrevisaoPool(c, sku)]

\* A comparison result as the pool run reads it
Resultado(sku, tc, ms) == [tipo |-> "resultado", sku |-> sku,
                           teste_constante |-> tc, metricas |-> ms,
                           serie_treino |-> TreinoDe(sku),
                           previsoes |-> PrevisoesDe(sku, ms)]

\* Outcomes of run_comparison_for_sku that are not a result
NENHUM == [tipo |-> "none"]
EXCECAO == [tipo |-> "excecao"]

\* The comparison results the pool is made of.  Every result has the moving
\* average row (comparar_modelos always appends it); MAEs are sums of absolute
\* errors in sub-units over n test points.
Tipos == 0..9
NumTipos == Cardinality(Tipos)
ResultadoTipo(sku, j) ==
    CASE j = 0 -> NENHUM
      [] j = 1 -> \* constant test, models differ, the smallest best MAE of all
                  Resultado(sku, TRUE, <<Metrica("arima", 0, 30),
                                          Metrica("media_movel", 30 * ESCALA, 30)>>)
      [] j = 2 -> \* spread just below 0.01, tiny best MAE
                  Resultado(sku, FALSE, <<Metrica("sarima_mensal", 12, 12),
                                           Metrica("media_movel", 12 * ESCALA + 11, 12)>>)
      [] j = 3 -> \* spread exactly 0.01
                  Resultado(sku, FALSE, <<Metrica("arima", 30 * ESCALA, 30),
                                           Metrica("media_movel", 60 * ESCALA, 30)>>)
      [] j = 4 -> \* same best MAE as type 3, other denominator
                  Resultado(sku, FALSE, <<Metrica("sarima_mensal", 36 * ESCALA, 12),
                                           Metrica("arima", 12 * ESCALA, 12),
                                           Metrica("media_movel", 24 * ESCALA, 12)>>)
      [] j = 5 -> \* best MAE depends on the SKU
                  Resultado(sku, FALSE, <<Metrica("media_movel", 900 * ESCALA, 30),
                                           Metrica("exponencial", (sku % 5) * 7 * ESCALA, 30)>>)
      [] j = 6 -> \* a single model: spread 0
                  Resultado(sku, FALSE, <<Metrica("media_movel", 5 * ESCALA, 30)>>)
      [] j = 7 -> \* large best MAE
                  Resultado(sku, FALSE, <<Metrica("sarima_mensal", 400 * ESCALA, 30),
                                           Metrica("arima", 300 * ESCALA, 30),
                                           Metrica("media_movel", 350 * ESCALA, 30),
                                           Metrica("exponencial", 500 * ESCALA, 30)>>)
      [] j = 8 -> \* best MAE depends on the SKU, 12 test points
                  Resultado(sku, FALSE, <<Metrica("arima", (sku % 3) * 12 * ESCALA, 12),
                                           Metrica("media_movel", 600 * ESCALA, 12)>>)
      [] j = 9 -> \* middling best MAE
                  Resultado(sku, FALSE, <<Metrica("sarima_mensal", 90 * ESCALA, 30),
                                           Metrica("media_movel", 150 * ESCALA, 30),
                                           Metrica("exponencial", 120 * ESCALA, 30)>>)

SKUs == 1..MaxPool

\* The CSV contents considered: SKU s holds data of type (a*s + b) mod NumTipos,
\* reading the file fails at SKU `falha` (0: never)
ConteudoCSV(a, b, falha) ==
    [s \in SKUs |-> IF s = falha THEN EXCECAO
                    ELSE ResultadoTipo(s, (a * s + b) % NumTipos)]

Crescente(n) == [i \in 1..n |-> i]
Decrescente(n) == [i \in 1..n |-> n + 1 - i]

\* ------------------------------------------------------------------------
\* Phase 2 of _rodar_comparacao_300_selecionar_10: filter, rank, truncate
\* ------------------------------------------------------------------------
\* maes = [x.get('mae') for x in ms if x.get('mae') is not None]
Maes(r) == [i \in 1..Len(r.metricas) |-> r.metricas[i].mae]

\* faulty variant: only an exactly zero spread counts as "all models equal"
DiffMenorQueEpsilon_zero(maes) ==
    LET d == SubQ(MaxQ(maes), MinQ(maes))
    IN  d.num <= 0

\* diff_mae < EPSILON_MAE_IGUAL
DiffMenorQueEpsilon(maes) ==
    LET d == SubQ(MaxQ(maes), MinQ(maes))
    IN  d.num < EPSILON_MAE_IGUAL * d.den

\* faulty variant: the constant-test check is missing from the filter
Descartado_semConstante(r) ==
    \/ r.metricas = <<>>
    \/ Maes(r) = <<>>
    \/ DiffMenorQueEpsilon(Maes(r))

\* the body of the filter loop says `continue` for r
Descartado(r) ==
    \/ r.teste_constante
    \/ r.metricas = <<>>
    \/ Maes(r) = <<>>
    \/ DiffMenorQueEpsilon(Maes(r))

\* elegiveis.sort(key=lambda x: x[1]): stable, ascending by best_mae
InserirOrdenado(s, x) ==
    LET p == Cardinality({i \in DOMAIN s : ~MenorQ(x[2], s[i][2])})
    IN  SubSeq(s, 1, p) \o <<x>> \o SubSeq(s, p + 1, Len(s))

\* faulty variant: sorted the other way round (reverse=True)
RECURSIVE OrdenarPorMae_desc(_)
OrdenarPorMae_desc(s) ==
    IF s = <<>> THEN <<>>
    ELSE LET r == OrdenarPorMae_desc(SubSeq(s, 1, Len(s) - 1))
             x == s[Len(s)]
             p == Cardinality({i \in DOMAIN r : ~MenorQ(r[i][2], x[2])})
         IN  SubSeq(r, 1, p) \o <<x>> \o SubSeq(r, p + 1, Len(r))

RECURSIVE OrdenarPorMae(_)
OrdenarPorMae(s) ==
    IF s = <<>> THEN <<>>
    ELSE InserirOrdenado(OrdenarPorMae(SubSeq(s, 1, Len(s) - 1)), s[Len(s)])

\* [x[0] for x in elegiveis[:N_MELHORES]]
PrimeirosN(s) ==
    LET f == Fatia(s, 0, N_MELHORES)
    IN  [i \in 1..Len(f) |-> f[i][1]]

\* ------------------------------------------------------------------------
\* The ranking of the selected SKUs (elencacao)
\* ------------------------------------------------------------------------
\* a float that may be NaN (None is read the same way by the score)
NAN == [nan |-> TRUE, v |-> 0]
Num(x) == [nan |-> FALSE, v |-> x]

\* the weights of _score_elencacao, in tenths
PESO_R == 4
PESO_U == 3
PESO_G == 3

\* the value 1.0 of a normalised term; a score is in tenths of it
UNIDADE == 1000 * ESCALA

\* _safe: None or NaN becomes the default 0.0
safe(x) == IF x.nan THEN 0 ELSE x.v

\* rent_norm = min(1.0, rent_val / 100.0) if rent_val > 0 else 0.0
rent_norm(rentabilidade) ==
    LET rent_val == safe(rentabilidade)
    IN  IF rent_val > 0 THEN Min2(UNIDADE, (rent_val * UNIDADE) \div 100) ELSE 0

\* urgencia_norm = min(1.0, 1/(1 + u_val)) if u_val >= 0 else 0.0
urgencia_norm(nivel_urgencia) ==
    LET u_val == safe(nivel_urgencia)
    IN  IF u_val >= 0 THEN Min2(UNIDADE, UNIDADE \div (1 + u_val)) ELSE 0

\* giro_norm = min(1.0, gp_val / 1000.0) if gp_val > 0 else 0.0
giro_norm(giro_futuro_previsto) ==
    LET gp_val == safe(giro_futuro_previsto)
    IN  IF gp_val > 0 THEN Min2(UNIDADE, (gp_val * UNIDADE) \div 1000) ELSE 0

\* _score_elencacao
score_elencacao(rentabilidade, nivel_urgencia, giro_futuro_previsto) ==
    PESO_R * rent_norm(rentabilidade) + PESO_U * urgencia_norm(nivel_urgencia)
        + PESO_G * giro_norm(giro_futuro_previsto)

\* nivel_urgencia = (estoque_atual / vmd) if vmd and vmd > 0 else np.nan
NivelUrgencia(estoque_atual, vmd) ==
    IF ~vmd.nan /\ vmd.v > 0
    THEN IF estoque_atual.nan THEN NAN ELSE Num(estoque_atual.v \div vmd.v)
    ELSE NAN

\* What the ranking reads from the sales file for each SKU: rentabilidade
\* and mean daily sales, missing when the SKU has no sales.  The stocks are
\* multiples of the sales so that the urgency is a whole number u with 1 + u
\* dividing UNIDADE.
Rentabilidades == <<NAN, Num(-5), Num(0), Num(50), Num(100), Num(250)>>
VendasMedias == <<NAN, Num(0), Num(1), Num(2)>>
Deslocamentos == 0..2

InsumosElencacao(e) ==
    [sku \in SKUs |->
        [rent |-> Rentabilidades[((sku + e) % Len(Rentabilidades)) + 1],
         vmd |-> VendasMedias[(((sku \div 2) + e) % Len(VendasMedias)) + 1]]]

\* estoque_atual = float(st.iloc[-1]) if st is not None and len(st) > 0 else np.nan
EstoqueAtual(r) ==
    IF Len(r.serie_treino) > 0 THEN Num(r.serie_treino[Len(r.serie_treino)]) ELSE NAN

\* faulty variant: the moving average is preferred
PrevisaoEscolhida_baseline(previsoes) ==
    LET ordem == <<"media_movel", "sarima_mensal", "arima", "exponencial">>
        presentes == {i \in DOMAIN ordem : ordem[i] \in DOMAIN previsoes}
    IN  IF presentes = {} THEN NENHUM
        ELSE [tipo |-> "previsao",
              valores |-> previsoes[ordem[CHOOSE i \in presentes :
                                              \A j \in presentes : i <= j]]]

\* prev = previsoes.get('sarima_mensal'), else the first of arima,
\* exponencial, media_movel that is there
PrevisaoEscolhida(previsoes) ==
    LET ordem == <<"sarima_mensal", "arima", "exponencial", "media_movel">>
        presentes == {i \in DOMAIN ordem : ordem[i] \in DOMAIN previsoes}
    IN  IF presentes = {} THEN NENHUM
        ELSE [tipo |-> "previsao",
              valores |-> previsoes[ordem[CHOOSE i \in presentes :
                                              \A j \in presentes : i <= j]]]

\* gp = float(np.sum(prev)) if prev is not None and len(prev) > 0 else np.nan
GiroFuturo(prev) ==
    IF prev.tipo = "previsao" /\ Len(prev.valores) > 0
    THEN Num(Soma(prev.valores))
    ELSE NAN

\* one row of `linhas`
LinhaElencacao(r, ins) ==
    LET estoque_atual == EstoqueAtual(r)
        gp == GiroFuturo(PrevisaoEscolhida(r.previsoes))
        u == NivelUrgencia(estoque_atual, ins.vmd)
    IN  [sku |-> r.sku,
         estoque_atual |-> estoque_atual,
         rentabilidade |-> ins.rent,
         nivel_urgencia |-> u,
         giro_futuro_previsto |-> gp,
         score_elencacao |-> score_elencacao(ins.rent, u, gp)]

\* faulty variant: sorted ascending
RECURSIVE OrdenarPorScore_asc(_)
OrdenarPorScore_asc(s) ==
    IF s = <<>> THEN <<>>
    ELSE LET r == OrdenarPorScore_asc(SubSeq(s, 1, Len(s) - 1))
             x == s[Len(s)]
             p == Cardinality({i \in DOMAIN r :
                                  r[i].score_elencacao <= x.score_elencacao})
         IN  SubSeq(r, 1, p) \o <<x>> \o SubSeq(r, p + 1, Len(r))

\* df.sort_values('score_elencacao', ascending=False): rows of equal score
\* keep their order
RECURSIVE OrdenarPorScore(_)
OrdenarPorScore(s) ==
    IF s = <<>> THEN <<>>
    ELSE LET r == OrdenarPorScore(SubSeq(s, 1, Len(s) - 1))
             x == s[Len(s)]
             p == Cardinality({i \in DOMAIN r :
                                  r[i].score_elencacao >= x.score_elencacao})
         IN  SubSeq(r, 1, p) \o <<x>> \o SubSeq(r, p + 1, Len(r))

\* _gerar_elencacao_final: one row per selected result, sorted, ranked
gerar_elencacao_final(selecionados, ins) ==
    LET linhas == [i \in DOMAIN selecionados |->
                      LinhaElencacao(selecionados[i], ins[selecionados[i].sku])]
        ordenadas == OrdenarPorScore(linhas)
    IN  [tipo |-> "df",
         linhas |-> [i \in DOMAIN ordenadas |->
                        [ranking |-> i,
                         sku |-> ordenadas[i].sku,
                         estoque_atual |-> ordenadas[i].estoque_atual,
                         rentabilidade |-> ordenadas[i].rentabilidade,
                         nivel_urgencia |-> ordenadas[i].nivel_urgencia,
                         giro_futuro_previsto |-> ordenadas[i].giro_futuro_previsto,
                         score_elencacao |-> ordenadas[i].score_elencacao]]]

\* ------------------------------------------------------------------------
\* The log and the exit status of the run
\* ------------------------------------------------------------------------
Msg(nivel, texto, args) == [nivel |-> nivel, texto |-> texto, args |-> args]

\* sys.exit(codigo), or the normal end of the process (0)
Saida(codigo) == [tipo |-> "saida", codigo |-> codigo]

\* faulty variant: the warning states the expected count only
AvisoElegiveis_semContagem(n) ==
    IF n < N_MELHORES
    THEN <<Msg("AVISO", "Apenas SKUs elegiveis (esperados)", <<N_MELHORES, N_MELHORES>>)>>
    ELSE <<>>

\* [AVISO] Apenas {len(top10_resultados)} SKUs elegiveis (esperados {N_MELHORES}).
AvisoElegiveis(n) ==
    IF n < N_MELHORES
    THEN <<Msg("AVISO", "Apenas SKUs elegiveis (esperados)", <<n, N_MELHORES>>)>>
    ELSE <<>>

\* ------------------------------------------------------------------------
\* Actions of the pool run
\* ------------------------------------------------------------------------
InitPool ==
    /\ \E n \in 0..MaxPool : top300_skus \in {Crescente(n), Decrescente(n)}
    /\ \E a \in {1, 3}, b \in 0..(NumTipos - 1), falha \in {0, 2, MaxPool} :
          csv = ConteudoCSV(a, b, falha)
    /\ candidatos = Fatia(top300_skus, 0, N_CANDIDATOS)
    /\ k = 1
    /\ lista_300 = <<>>
    /\ fi = 1
    /\ elegiveis = <<>>
    /\ top10_resultados = <<>>
    /\ pc = "fase1"
    /\ \E e \in Deslocamentos : insumos = InsumosElencacao(e)
    /\ df_elencacao = NADA
    /\ log = <<>>
    /\ codigo_saida = NADA

\* comparar_modelos is not running
CmpParado ==
    /\ serie = <<>>
    /\ proporcao_treino = 80
    /\ horizonte_previsao = HORIZONTE_PADRAO
    /\ serie_treino = <<>>
    /\ serie_teste = <<>>
    /\ n_previsao = 0
    /\ resultados = NADA
    /\ tentados = {}
    /\ desfechos = {}
    /\ relatorio = NADA
    /\ identicas = {}
    /\ pc_cmp = "parado"

\* calcular_mape is not running
MetParado ==
    /\ arg_y_real = <<>>
    /\ arg_y_previsto = <<>>
    /\ mape = NADA
    /\ pc_met = "parado"

\* no PrevisorEstoqueSARIMA exists
PrepParado ==
    /\ series_cache = <<>>
    /\ chamada = NADA
    /\ retorno = NADA

\* run_comparison_for_sku is not running
RunParado ==
    /\ run_presente = FALSE
    /\ run_n_obs = 0
    /\ run_res = NADA
    /\ pc_run = "parado"

\* treinar_modelo is not running
SkusTreino == {"A"}
TreinoParado ==
    /\ cache_modelo = [s \in SkusTreino |-> NADA]
    /\ cache_metadata = [s \in SkusTreino |-> NADA]
    /\ modelos = [s \in SkusTreino |-> NADA]
    /\ arg_treino = NADA
    /\ ret_treino = NADA
    /\ pc_treino = "parado"

\* the score functions are not running
ScoreParado ==
    /\ arg_score = NADA
    /\ ret_figuras = NADA
    /\ ret_teste = NADA
    /\ pc_score = "parado"

\* the checkpointed run is not in use
ARQUIVO_AUSENTE == [tipo |-> "ausente", skus |-> {}]
CkptParado ==
    /\ ck_dados = <<>>
    /\ ck_arquivo = ARQUIVO_AUSENTE
    /\ ck_salvos = {}
    /\ ck_fila = <<>>
    /\ ck_local = {}
    /\ ck_historico = {}
    /\ pc_ckpt = "fora"

\* executar_validacao is not running
WfParado ==
    /\ wf_args = NADA
    /\ wf_pos = 0
    /\ wf_fold = 0
    /\ wf_n_res = 0
    /\ wf_ultimo = NADA
    /\ pc_wf = "parado"

\* faulty variant: the filter is applied inside the phase-1 loop, on a partial pool
Fase1Candidato_filtra ==
    /\ pc = "fase1"
    /\ k <= Len(candidatos)
    /\ csv[candidatos[k]].tipo = "resultado"
    /\ lista_300' = Append(lista_300, csv[candidatos[k]])
    /\ elegiveis' = IF Descartado(csv[candidatos[k]]) THEN elegiveis
                     ELSE Append(elegiveis, <<csv[candidatos[k]],
                                              MinQ(Maes(csv[candidatos[k]]))>>)
    /\ k' = k + 1
    /\ UNCHANGED <<insumos, top300_skus, csv, candidatos, fi, top10_resultados, pc>>
    /\ UNCHANGED <<df_elencacao, log, codigo_saida>>
    /\ UNCHANGED varsForaPool

\* one iteration of the phase-1 loop: run_comparison_for_sku returned a result
Fase1Candidato ==
    /\ pc = "fase1"
    /\ k <= Len(candidatos)
    /\ csv[candidatos[k]].tipo = "resultado"
    /\ lista_300' = Append(lista_300, csv[candidatos[k]])
    /\ k' = k + 1
    /\ UNCHANGED <<insumos, top300_skus, csv, candidatos, fi, elegiveis, top10_resultados, pc>>
    /\ UNCHANGED <<df_elencacao, log, codigo_saida>>
    /\ UNCHANGED varsForaPool

\* one iteration of the phase-1 loop: res is None, `continue`
Fase1Ignorado ==
    /\ pc = "fase1"
    /\ k <= Len(candidatos)
    /\ csv[candidatos[k]].tipo = "none"
    /\ k' = k + 1
    /\ UNCHANGED <<insumos, top300_skus, csv, candidatos, lista_300, fi, elegiveis,
                   top10_resultados, pc>>
    /\ UNCHANGED <<df_elencacao, log, codigo_saida>>
    /\ UNCHANGED varsForaPool

\* one iteration of the phase-1 loop: run_comparison_for_sku raised; nothing
\* in the loop catches it
Fase1Excecao ==
    /\ pc = "fase1"
    /\ k <= Len(candidatos)
    /\ csv[candidatos[k]].tipo = "excecao"
    /\ pc' = "excecao"
    /\ UNCHANGED <<insumos, top300_skus, csv, candidatos, k, lista_300, fi, elegiveis,
                   top10_resultados>>
    /\ UNCHANGED <<df_elencacao, log, codigo_saida>>
    /\ UNCHANGED varsForaPool

\* the loop is over: `if not lista_300: return`, else on to phase 2
Fase1Fim ==
    /\ pc = "fase1"
    /\ k > Len(candidatos)
    /\ pc' = IF lista_300 = <<>> THEN "retorno_sem_candidatos" ELSE "fase2"
    /\ UNCHANGED <<insumos, top300_skus, csv, candidatos, k, lista_300, fi, elegiveis,
                   top10_resultados>>
    /\ log' = IF lista_300 = <<>>
              THEN Append(log, Msg("ERRO", "Nenhum candidato processado com sucesso.", <<>>))
              ELSE log
    /\ UNCHANGED <<df_elencacao, codigo_saida>>
    /\ UNCHANGED varsForaPool

\* one iteration of the filter loop
Fase2Filtrar ==
    /\ pc = "fase2"
    /\ fi <= Len(lista_300)
    /\ LET r == lista_300[fi]
       IN  elegiveis' = IF Descartado(r) THEN elegiveis
                        ELSE Append(elegiveis, <<r, MinQ(Maes(r))>>)
    /\ fi' = fi + 1
    /\ UNCHANGED <<insumos, top300_skus, csv, candidatos, k, lista_300, top10_resultados, pc>>
    /\ UNCHANGED <<df_elencacao, log, codigo_saida>>
    /\ UNCHANGED varsForaPool

\* elegiveis.sort(...)
Fase2Ordenar ==
    /\ pc = "fase2"
    /\ fi > Len(lista_300)
    /\ elegiveis' = OrdenarPorMae(elegiveis)
    /\ pc' = "ordenado"
    /\ UNCHANGED <<insumos, top300_skus, csv, candidatos, k, lista_300, fi, top10_resultados>>
    /\ UNCHANGED <<df_elencacao, log, codigo_saida>>
    /\ UNCHANGED varsForaPool

\* top10_resultados = ...[:N_MELHORES]; `if not top10_resultados: return`
Fase2Truncar ==
    /\ pc = "ordenado"
    /\ top10_resultados' = PrimeirosN(elegiveis)
    /\ pc' = IF PrimeirosN(elegiveis) = <<>> THEN "retorno_sem_elegiveis" ELSE "fase3"
    /\ UNCHANGED <<insumos, top300_skus, csv, candidatos, k, lista_300, fi, elegiveis>>
    /\ log' = log \o AvisoElegiveis(Len(PrimeirosN(elegiveis)))
                  \o (IF PrimeirosN(elegiveis) = <<>>
                      THEN <<Msg("ERRO", "Nenhum SKU elegivel apos filtros.", <<>>)>>
                      ELSE <<>>)
    /\ UNCHANGED <<df_elencacao, codigo_saida>>
    /\ UNCHANGED varsForaPool

\* phase 3 and the final ranking, for the selected list
Fase3 ==
    /\ pc = "fase3"
    /\ pc' = "concluido"
    /\ UNCHANGED <<insumos, top300_skus, csv, candidatos, k, lista_300, fi, elegiveis,
                   top10_resultados>>
    /\ df_elencacao' = gerar_elencacao_final(top10_resultados, insumos)
    /\ UNCHANGED <<log, codigo_saida>>
    /\ UNCHANGED varsForaPool

\* main after _rodar_comparacao_300_selecionar_10 has returned, with a ranking
\* or with None: the closing banner is logged and the process ends normally
MainFim ==
    /\ pc \in {"retorno_sem_candidatos", "retorno_sem_elegiveis", "concluido"}
    /\ top300_skus # <<>>
    /\ codigo_saida = NADA
    /\ log' = Append(log, Msg("INFO", "CONCLUIDO", <<>>))
    /\ codigo_saida' = Saida(0)
    /\ UNCHANGED <<insumos, top300_skus, csv, candidatos, k, lista_300, fi, elegiveis,
                   top10_resultados, pc, df_elencacao>>
    /\ UNCHANGED varsForaPool

\* the handler of __main__: an exception that left main is logged and the
\* process ends with sys.exit(1)
MainExcecao ==
    /\ pc = "excecao"
    /\ codigo_saida = NADA
    /\ log' = Append(log, Msg("ERRO", "excecao", <<>>))
    /\ codigo_saida' = Saida(1)
    /\ UNCHANGED <<insumos, top300_skus, csv, candidatos, k, lista_300, fi, elegiveis,
                   top10_resultados, pc, df_elencacao>>
    /\ UNCHANGED varsForaPool

Init == InitPool /\ CmpParado /\ MetParado /\ PrepParado /\ RunParado /\ TreinoParado /\ ScoreParado /\ CkptParado /\ WfParado

Next ==
    \/ Fase1Candidato
    \/ Fase1Ignorado
    \/ Fase1Excecao
    \/ Fase1Fim
    \/ Fase2Filtrar
    \/ Fase2Ordenar
    \/ Fase2Truncar
    \/ Fase3
    \/ MainFim
    \/ MainExcecao

Spec == Init /\ [][Next]_vars

\* ------------------------------------------------------------------------
\* Properties of the pool selection
\* ------------------------------------------------------------------------
\* the selection phase has produced its list
Selecionado == pc \in {"fase3", "concluido", "retorno_sem_elegiveis"}

\* best and worst MAE of a result, and its spread test, stated on the rows
MelhorMae(r) == MinQ(Maes(r))
PiorMae(r) == MaxQ(Maes(r))
SpreadPeloMenosEpsilon(r) ==
    LET mx == PiorMae(r)
        mn == MelhorMae(r)
    IN  mx.num * mn.den - mn.num * mx.den >= EPSILON_MAE_IGUAL * (mx.den * mn.den)

\* the results of the pool that pass both filters
Sobreviventes ==
    {r \in Range(lista_300) : ~r.teste_constante /\ SpreadPeloMenosEpsilon(r)}

\* C1: the selected list holds no entry flagged teste_constante and has at
\* most N_MELHORES entries.
C1_SemTesteConstante ==
    /\ \A i \in DOMAIN top10_resultados : ~top10_resultados[i].teste_constante
    /\ Len(top10_resultados) <= N_MELHORES

C1_Witness ==
    /\ pc = "concluido"
    /\ Len(top10_resultados) = N_MELHORES
    /\ \E r \in Range(lista_300) :
          r.teste_constante /\ MenorQ(MelhorMae(r), MelhorMae(top10_resultados[1]))

\* C2: filtering starts only after phase 1 has processed every candidate (and
\* the pool no longer changes), ranking starts only after the filter has seen
\* the whole pool, and the truncation to N_MELHORES is the last step.
C2_OrdemDasFases ==
    [][ /\ (elegiveis' # elegiveis \/ fi' # fi) =>
              (k > Len(candidatos) /\ lista_300' = lista_300)
        /\ (pc' = "ordenado" /\ pc # "ordenado") => fi > Len(lista_300)
        /\ (top10_resultados' # top10_resultados) =>
              (pc = "ordenado" /\ fi > Len(lista_300) /\ k > Len(candidatos)
               /\ elegiveis' = elegiveis /\ lista_300' = lista_300) ]_vars

C2_Witness ==
    /\ pc = "concluido"
    /\ Len(candidatos) > Len(lista_300)
    /\ Len(lista_300) > Len(elegiveis)
    /\ Len(elegiveis) > Len(top10_resultados)

\* C3: the selected list is in non-decreasing order of best MAE and is the
\* first N_MELHORES of that order: it holds only survivors of the filters, as
\* many as there are up to N_MELHORES, and no survivor left out has a
\* strictly smaller best MAE than a selected entry.
C3_OrdenadoPorMelhorMae ==
    Selecionado =>
        /\ \A i, j \in DOMAIN top10_resultados :
              i < j => ~MenorQ(MelhorMae(top10_resultados[j]),
                               MelhorMae(top10_resultados[i]))
        /\ Range(top10_resultados) \subseteq Sobreviventes
        /\ Len(top10_resultados) = Min2(N_MELHORES, Cardinality(Sobreviventes))
        /\ \A r \in Sobreviventes \ Range(top10_resultados) :
              \A t \in Range(top10_resultados) : ~MenorQ(MelhorMae(r), MelhorMae(t))

C3_Witness ==
    /\ pc = "concluido"
    /\ Cardinality(Sobreviventes) > N_MELHORES
    /\ MenorQ(MelhorMae(top10_resultados[1]), MelhorMae(top10_resultados[N_MELHORES]))
    /\ \E i, j \in DOMAIN lista_300 :
          /\ i < j
          /\ lista_300[i] \in Sobreviventes
          /\ lista_300[j] \in Range(top10_resultados)
          /\ MenorQ(MelhorMae(lista_300[j]), MelhorMae(lista_300[i]))

\* C4: every selected entry has a spread max MAE - min MAE of at least 0.01;
\* an entry with a smaller spread is dropped whatever its best MAE.
C4_SpreadMinimo ==
    \A i \in DOMAIN top10_resultados : SpreadPeloMenosEpsilon(top10_resultados[i])

C4_Witness ==
    /\ pc = "concluido"
    /\ \E r \in Range(lista_300) :
          /\ ~r.teste_constante
          /\ ~SpreadPeloMenosEpsilon(r)
          /\ ~IgualQ(PiorMae(r), MelhorMae(r))
          /\ MenorQ(MelhorMae(r), MelhorMae(top10_resultados[1]))
    /\ \E t \in Range(top10_resultados) :
          SubQ(PiorMae(t), MelhorMae(t)).num
              = EPSILON_MAE_IGUAL * SubQ(PiorMae(t), MelhorMae(t)).den

\* ------------------------------------------------------------------------
\* comparar_modelos: pure helpers
\* ------------------------------------------------------------------------
\* faulty variant: the test part starts one observation too late
dividir_serie_temporal_pulaUm(s, proporcao) ==
    LET n == Len(s)
        n_treino == (n * proporcao) \div 100
    IN  <<Fatia(s, 0, n_treino), Fatia(s, n_treino + 1, n)>>

\* dividir_serie_temporal: n_treino = int(n * proporcao_treino);
\* serie.iloc[:n_treino], serie.iloc[n_treino:]   (proporcao in percent)
dividir_serie_temporal(s, proporcao) ==
    LET n == Len(s)
        n_treino == (n * proporcao) \div 100
    IN  <<Fatia(s, 0, n_treino), Fatia(s, n_treino, n)>>

SomaQuadrados(s) == Soma([i \in DOMAIN s |-> s[i] * s[i]])
Maximo(s) == CHOOSE m \in Range(s) : \A o \in Range(s) : o <= m
Minimo(s) == CHOOSE m \in Range(s) : \A o \in Range(s) : o >= m

\* float(s.std()) < lim: the sample standard deviation (ddof = 1) is NaN for
\* fewer than 2 observations, and NaN < lim is False.
\* std^2 = (n*sum(x^2) - sum(x)^2) / (n*(n-1))
DesvioMenorQue(s, lim) ==
    /\ Len(s) >= 2
    /\ Len(s) * SomaQuadrados(s) - Soma(s) * Soma(s) < lim * lim * Len(s) * (Len(s) - 1)

\* max - min < lim: NaN (False) for an empty series
AmplitudeMenorQue(s, lim) ==
    /\ Len(s) >= 1
    /\ Maximo(s) - Minimo(s) < lim

\* faulty variant: only the standard deviation is looked at
TesteConstante_soDesvio(teste) == DesvioMenorQue(teste, LIMIAR_CONSTANTE)

\* teste_constante = (s_teste < 0.01 or range_teste < 0.01)
TesteConstante(teste) ==
    \/ DesvioMenorQue(teste, LIMIAR_CONSTANTE)
    \/ AmplitudeMenorQue(teste, LIMIAR_CONSTANTE)

\* faulty variant: strictly more than two years are required
usar_sarima_anual_estrito(dias_treino) == dias_treino > MIN_DIAS_SARIMA_ANUAL

\* faulty variant: one annual cycle (m = 365) is taken to be enough
usar_sarima_anual_umCiclo(dias_treino) == dias_treino >= 365

\* usar_sarima_anual = dias_treino >= MIN_DIAS_SARIMA_ANUAL
usar_sarima_anual(dias_treino) == dias_treino >= MIN_DIAS_SARIMA_ANUAL

\* np.maximum(prev, 0)
NaoNegativo(prev) == [i \in DOMAIN prev |-> Max2(prev[i], 0)]

\* modelo_media_movel: the last `janela` training values
modelo_media_movel(treino, janela) ==
    [tipo |-> "media_movel", janela |-> janela,
     ultimos_valores |-> Fatia(treino, Len(treino) - janela, Len(treino))]

\* prever_media_movel: np.full(n_periodos, np.mean(ultimos_valores)), in
\* sub-units; the mean of no value is NaN
MediaIndefinida(modelo_info) == modelo_info.ultimos_valores = <<>>
prever_media_movel(modelo_info, n_periodos) ==
    LET u == modelo_info.ultimos_valores
        media == (Soma(u) * ESCALA) \div Len(u)
    IN  [i \in 1..n_periodos |-> media]

\* mean_absolute_error rejects empty inputs, inputs of different lengths and NaN
AvaliarFalha(y_real, y_previsto) ==
    \/ Len(y_real) = 0
    \/ Len(y_real) # Len(y_previsto)

\* avaliar_modelo: y_real in hundredths, y_previsto in sub-units
avaliar_modelo(y_real, y_previsto, nome_modelo) ==
    [modelo |-> nome_modelo,
     mae |-> Q(Soma([i \in DOMAIN y_real |-> Abs(y_real[i] * ESCALA - y_previsto[i])]),
               Len(y_real))]

\* resultados[...][chave] = ...; resultados['metricas'].append(metricas)
\* faulty variant: the metric row is appended, the model and the forecast
\* are stored only for the baseline
Registrar_soMetricas(res, chave, modelo, prev, metricas) ==
    IF chave = "media_movel"
    THEN [res EXCEPT !.modelos = (chave :> modelo) @@ res.modelos,
                     !.previsoes = (chave :> prev) @@ res.previsoes,
                     !.metricas = Append(res.metricas, metricas)]
    ELSE [res EXCEPT !.metricas = Append(res.metricas, metricas)]

Registrar(res, chave, modelo, prev, metricas) ==
    [res EXCEPT !.modelos = (chave :> modelo) @@ res.modelos,
                !.previsoes = (chave :> prev) @@ res.previsoes,
                !.metricas = Append(res.metricas, metricas)]

\* ------------------------------------------------------------------------
\* comparar_modelos: what the fitting libraries may do
\* ------------------------------------------------------------------------
\* raw forecasts of n values returned by predict/forecast, in sub-units:
\* a negative constant, the last training value repeated (random walk), a
\* ramp that starts below zero
PrevisoesBrutas(n, treino) ==
    {[i \in 1..n |-> -ESCALA],
     [i \in 1..n |-> IF treino = <<>> THEN 0 ELSE treino[Len(treino)] * ESCALA],
     [i \in 1..n |-> (i - 2) * ESCALA]}

\* outcomes of fitting one library variant and predicting with it
Desfechos(n, treino) ==
    {[tipo |-> "ajuste_falhou"], [tipo |-> "previsao_falhou"]}
        \cup {[tipo |-> "ok", bruta |-> b] : b \in PrevisoesBrutas(n, treino)}

\* ------------------------------------------------------------------------
\* comparar_modelos: inputs
\* ------------------------------------------------------------------------
Valores == {-1, 0, 2}
Proporcoes == {1, 50, 80, 99}
Horizontes == {1, HORIZONTE_PADRAO}
Comprimentos == {800, 912, 913}
Formas == {"constante", "quase", "serra", "degrau"}

RECURSIVE SeqsAte(_)
SeqsAte(n) ==
    IF n = 0 THEN {<<>>}
    ELSE LET menores == SeqsAte(n - 1)
         IN  menores \cup {Append(q, v) : q \in {m \in menores : Len(m) = n - 1},
                                          v \in Valores}

\* long daily series
Gerada(len, forma) ==
    [i \in 1..len |->
        CASE forma = "constante" -> 500
          [] forma = "quase" -> IF i % 40 = 0 THEN 501 ELSE 500
          [] forma = "serra" -> 100 * (i % 3)
          [] forma = "degrau" -> IF i <= len \div 2 THEN 100 * (i % 4) ELSE 700]

Series == SeqsAte(MaxLen) \cup {Gerada(l, f) : l \in Comprimentos, f \in Formas}

\* ------------------------------------------------------------------------
\* comparar_modelos: actions
\* ------------------------------------------------------------------------
PoolParado ==
    /\ top300_skus = <<>>
    /\ csv = <<>>
    /\ candidatos = <<>>
    /\ k = 1
    /\ lista_300 = <<>>
    /\ fi = 1
    /\ elegiveis = <<>>
    /\ top10_resultados = <<>>
    /\ pc = "parado"
    /\ insumos = <<>>
    /\ df_elencacao = NADA
    /\ log = <<>>
    /\ codigo_saida = NADA

InitCmp ==
    /\ WfParado
    /\ CkptParado
    /\ ScoreParado
    /\ TreinoParado
    /\ RunParado
    /\ PoolParado
    /\ MetParado
    /\ PrepParado
    /\ serie \in Series
    /\ proporcao_treino \in Proporcoes
    /\ horizonte_previsao \in Horizontes
    /\ serie_treino = <<>>
    /\ serie_teste = <<>>
    /\ n_previsao = 0
    /\ resultados = NADA
    /\ tentados = {}
    /\ desfechos = {}
    /\ relatorio = NADA
    /\ identicas = {}
    /\ pc_cmp = "inicio"

\* faulty variant: the requested horizon is used as it is
HorizonteEfetivo_pedido(horizonte, teste) == horizonte

\* n_previsao = min(horizonte_previsao, len(serie_teste))
HorizonteEfetivo(horizonte, teste) == Min2(horizonte, Len(teste))

\* split, diagnostics of the test window, the empty result, the annual gate
CmpInicio ==
    /\ pc_cmp = "inicio"
    /\ LET d == dividir_serie_temporal(serie, proporcao_treino)
           n == HorizonteEfetivo(horizonte_previsao, d[2])
           serie_teste_previsao == Fatia(d[2], 0, n)
       IN  /\ serie_treino' = d[1]
           /\ serie_teste' = d[2]
           /\ n_previsao' = n
           /\ resultados' = [sku |-> "sku",
                             modelos |-> <<>>,
                             previsoes |-> <<>>,
                             metricas |-> <<>>,
                             serie_treino |-> d[1],
                             serie_teste |-> serie_teste_previsao,
                             teste_constante |-> TesteConstante(serie_teste_previsao)]
           /\ pc_cmp' = IF usar_sarima_anual(Len(d[1])) THEN "sarima_anual"
                        ELSE "sarima_mensal"
    /\ UNCHANGED <<identicas, relatorio, serie, proporcao_treino, horizonte_previsao, tentados, desfechos>>
    /\ UNCHANGED varsForaCmp

\* how the step of a library variant ends for one outcome of the library
DesfechoEfetivo(d) ==
    IF d.tipo = "ok" /\ AvaliarFalha(resultados.serie_teste, d.bruta)
    THEN "avaliacao_falhou"
    ELSE d.tipo

\* faulty variant: a failure of the library ends the whole comparison
PassoVariante_aborta(chave, proximo) ==
    /\ \E d \in Desfechos(n_previsao, serie_treino) :
          /\ resultados' =
                IF DesfechoEfetivo(d) = "ok"
                THEN Registrar(resultados, chave, [tipo |-> chave],
                               NaoNegativo(d.bruta),
                               avaliar_modelo(resultados.serie_teste,
                                              NaoNegativo(d.bruta), NomeModelo(chave)))
                ELSE resultados
          /\ desfechos' = desfechos \cup {<<chave, DesfechoEfetivo(d)>>}
          /\ pc_cmp' = IF DesfechoEfetivo(d) = "ok" THEN proximo ELSE "erro"
    /\ tentados' = tentados \cup {chave}
    /\ UNCHANGED <<identicas, relatorio, serie, proporcao_treino, horizonte_previsao, serie_treino,
                   serie_teste, n_previsao>>
    /\ UNCHANGED varsForaCmp

\* one library variant: fit (None on failure), predict, clamp, evaluate and
\* store inside try/except; whatever happens the next variant is tried
PassoVariante(chave, proximo) ==
    /\ \E d \in Desfechos(n_previsao, serie_treino) :
          /\ resultados' =
                IF DesfechoEfetivo(d) = "ok"
                THEN Registrar(resultados, chave, [tipo |-> chave],
                               NaoNegativo(d.bruta),
                               avaliar_modelo(resultados.serie_teste,
                                              NaoNegativo(d.bruta), NomeModelo(chave)))
                ELSE resultados
          /\ desfechos' = desfechos \cup {<<chave, DesfechoEfetivo(d)>>}
    /\ tentados' = tentados \cup {chave}
    /\ pc_cmp' = proximo
    /\ UNCHANGED <<identicas, relatorio, serie, proporcao_treino, horizonte_previsao, serie_treino,
                   serie_teste, n_previsao>>
    /\ UNCHANGED varsForaCmp

CmpSarimaAnual ==
    /\ pc_cmp = "sarima_anual"
    /\ PassoVariante("sarima_anual", "sarima_mensal")

CmpSarimaMensal ==
    /\ pc_cmp = "sarima_mensal"
    /\ PassoVariante("sarima_mensal", "arima")

CmpArima ==
    /\ pc_cmp = "arima"
    /\ PassoVariante("arima", "media_movel")

\* the moving average: no fit failure, no clamp, no try/except around the
\* evaluation
CmpMediaMovel ==
    /\ pc_cmp = "media_movel"
    /\ LET modelo_mm == modelo_media_movel(serie_treino, JANELA)
       IN  IF MediaIndefinida(modelo_mm) \/ n_previsao = 0
           THEN /\ pc_cmp' = "erro"
                /\ desfechos' = desfechos \cup {<<"media_movel", "excecao">>}
                /\ UNCHANGED resultados
           ELSE /\ resultados' =
                      Registrar(resultados, "media_movel", modelo_mm,
                                prever_media_movel(modelo_mm, n_previsao),
                                avaliar_modelo(resultados.serie_teste,
                                               prever_media_movel(modelo_mm, n_previsao),
                                               NomeModelo("media_movel")))
                /\ desfechos' = desfechos \cup {<<"media_movel", "ok">>}
                /\ pc_cmp' = "exponencial"
    /\ tentados' = tentados \cup {"media_movel"}
    /\ UNCHANGED <<identicas, relatorio, serie, proporcao_treino, horizonte_previsao, serie_treino,
                   serie_teste, n_previsao>>
    /\ UNCHANGED varsForaCmp

CmpExponencial ==
    /\ pc_cmp = "exponencial"
    /\ PassoVariante("exponencial", "verificacao")

\* the variants whose forecasts the closing check compares
VARIANTES_VERIFICADAS == {"sarima_mensal", "arima", "media_movel"}

\* the pairs of compared variants whose forecasts have equal length and are
\* equal (np.allclose with tolerance 1e-10 separates any two different
\* fixed-point values)
ParesIdenticos(previsoes, chaves) ==
    {{a, b} : a, b \in chaves \cap DOMAIN previsoes} \cap
    {par \in SUBSET (chaves \cap DOMAIN previsoes) :
        /\ Cardinality(par) = 2
        /\ \A a, b \in par : Len(previsoes[a]) = Len(previsoes[b])
        /\ \A a, b \in par : previsoes[a] = previsoes[b]}

\* the closing diagnostics (identical pairs are logged, nothing is stored in
\* the result) and `return resultados`
CmpFim ==
    /\ pc_cmp = "verificacao"
    /\ identicas' = ParesIdenticos(resultados.previsoes, VARIANTES_VERIFICADAS)
    /\ pc_cmp' = "fim"
    /\ UNCHANGED <<relatorio, serie, proporcao_treino, horizonte_previsao, serie_treino,
                   serie_teste, n_previsao, resultados, tentados, desfechos>>
    /\ UNCHANGED varsForaCmp

\* the first row with the smallest MAE (idxmin)
MenorMae(metricas) ==
    LET i == CHOOSE i \in DOMAIN metricas :
                 /\ \A j \in DOMAIN metricas : ~MenorQ(metricas[j].mae, metricas[i].mae)
                 /\ \A j \in 1..(i - 1) : MenorQ(metricas[i].mae, metricas[j].mae)
    IN  metricas[i].modelo

\* usar_na = teste_constante and all_mae_zero
usar_na(res) ==
    /\ res.teste_constante
    /\ \A i \in DOMAIN res.metricas : res.metricas[i].mae.num = 0

\* gerar_relatorio_comparacao: what is shown in the metric cells, which model
\* is named for the smallest MAE, and whether Tabela 2 is written
gerar_relatorio_comparacao(res, salvar_tabela) ==
    IF Len(res.metricas) = 0 THEN [tipo |-> "sem_metricas"]
    ELSE [tipo |-> "relatorio",
          salvar_tabela |-> salvar_tabela,
          celulas |-> IF usar_na(res) THEN "N/A" ELSE "numeros",
          menor_mae |-> IF usar_na(res) THEN "N/A" ELSE MenorMae(res.metricas),
          tabela_02 |-> salvar_tabela /\ ~usar_na(res)]

\* the report of a returned result
CmpRelatorio ==
    /\ pc_cmp = "fim"
    /\ \E salvar_tabela \in BOOLEAN :
          relatorio' = gerar_relatorio_comparacao(resultados, salvar_tabela)
    /\ pc_cmp' = "relatado"
    /\ UNCHANGED <<identicas, serie, proporcao_treino, horizonte_previsao, serie_treino,
                   serie_teste, n_previsao, resultados, tentados, desfechos>>
    /\ UNCHANGED varsForaCmp

NextCmp ==
    \/ CmpInicio
    \/ CmpSarimaAnual
    \/ CmpSarimaMensal
    \/ CmpArima
    \/ CmpMediaMovel
    \/ CmpExponencial
    \/ CmpFim
    \/ CmpRelatorio

SpecCmp == InitCmp /\ [][NextCmp]_vars

\* ------------------------------------------------------------------------
\* Properties of comparar_modelos
\* ------------------------------------------------------------------------
Dividido == pc_cmp \notin {"parado", "inicio"}

\* the effective test window: the first min(horizon, test length) test values
JanelaEfetiva == SubSeq(serie_teste, 1, Min2(horizonte_previsao, Len(serie_teste)))

JanelaConstante ==
    /\ Len(JanelaEfetiva) >= 1
    /\ \A i, j \in DOMAIN JanelaEfetiva : JanelaEfetiva[i] = JanelaEfetiva[j]

LinhasDe(chave) ==
    {i \in DOMAIN resultados.metricas : resultados.metricas[i].modelo = NomeModelo(chave)}

Ausente(chave) ==
    /\ chave \notin DOMAIN resultados.modelos
    /\ chave \notin DOMAIN resultados.previsoes
    /\ LinhasDe(chave) = {}

C6_JanelaConstanteSinalizada ==
    (Dividido /\ JanelaConstante) =>
        /\ resultados.serie_teste = JanelaEfetiva
        /\ resultados.teste_constante = TRUE

C6_Witness ==
    /\ pc_cmp = "fim"
    /\ Len(JanelaEfetiva) = 1
    /\ Len(serie_teste) > 1
    /\ resultados.teste_constante = TRUE

\* C7: when the test values all equal one constant, all models of the result
\* have the same MAE.
C7_MaeIguaisComTesteConstante ==
    (pc_cmp = "fim" /\ JanelaConstante) =>
        \A i, j \in DOMAIN resultados.metricas :
            IgualQ(resultados.metricas[i].mae, resultados.metricas[j].mae)

\* C8: with fewer than 730 training observations the annual variant is never
\* fitted and is absent from models, forecasts and metrics; with 730 or more
\* it is attempted.
C8_PortaoSarimaAnual ==
    Dividido =>
        /\ Len(serie_treino) < 730 =>
              ("sarima_anual" \notin tentados /\ Ausente("sarima_anual"))
        /\ (Len(serie_treino) >= 730 /\ pc_cmp # "sarima_anual") =>
              "sarima_anual" \in tentados

C8_Witness ==
    /\ pc_cmp = "fim"
    /\ Len(serie_treino) = 730
    /\ "sarima_anual" \in tentados
    /\ "sarima_anual" \in DOMAIN resultados.previsoes

Serie800 == pc_cmp = "fim" /\ Len(serie) = 800 /\ proporcao_treino = 80

\* C9 (as stated): for a series of 800 values and train fraction 0.8 the annual
\* variant is attempted, together with the other four variants.
C9_AnualTentadoCom800 ==
    Serie800 =>
        {"sarima_anual", "sarima_mensal", "arima", "media_movel", "exponencial"}
            \subseteq tentados

\* C9 (amended): for a series of 800 values and train fraction 0.8 the training
\* part has 640 observations, the annual variant is omitted by the 730-day
\* gate, and the other four variants are attempted.
C9_AnualOmitidoCom800 ==
    Serie800 =>
        /\ Len(serie_treino) = 640
        /\ "sarima_anual" \notin tentados
        /\ Ausente("sarima_anual")
        /\ tentados = {"sarima_mensal", "arima", "media_movel", "exponencial"}

C9_Witness ==
    /\ Serie800
    /\ DOMAIN resultados.previsoes = {"sarima_mensal", "arima", "media_movel", "exponencial"}
    /\ ~resultados.teste_constante

\* C10: every value of every forecast stored in the result is >= 0, for every
\* variant and whatever the values of the input series.
C10_PrevisoesNaoNegativas ==
    Dividido =>
        \A c \in DOMAIN resultados.previsoes :
            \A i \in DOMAIN resultados.previsoes[c] : resultados.previsoes[c][i] >= 0

\* the ARIMA-family variants
FamiliaArima == {"sarima_anual", "sarima_mensal", "arima"}

\* the step of the moving average raises: nothing to average or nothing to
\* evaluate against
MediaMovelFalha ==
    MediaIndefinida(modelo_media_movel(serie_treino, JANELA)) \/ n_previsao = 0

\* C11: a failing fit or prediction of an ARIMA-family variant does not end
\* comparar_modelos: the failed variant, and only it, is absent from models,
\* forecasts and metrics; a variant that succeeded is present with one metric
\* row; every variant the gate allows has been attempted when the function
\* returns; the function is left by an exception only where the moving
\* average raises, whatever the outcomes of the ARIMA-family variants.
C11_FalhaDeVarianteIsolada ==
    Dividido =>
        /\ \A p \in desfechos :
              p[1] \in FamiliaArima \cup {"exponencial"} =>
                  /\ p[2] # "ok" => Ausente(p[1])
                  /\ p[2] = "ok" =>
                        /\ p[1] \in DOMAIN resultados.modelos
                        /\ p[1] \in DOMAIN resultados.previsoes
                        /\ Cardinality(LinhasDe(p[1])) = 1
        /\ \A c \in tentados : \E p \in desfechos : p[1] = c
        /\ pc_cmp = "erro" <=> ("media_movel" \in tentados /\ MediaMovelFalha)
        /\ pc_cmp = "fim" =>
              tentados = (IF usar_sarima_anual(Len(serie_treino))
                          THEN {"sarima_anual"} ELSE {})
                         \cup {"sarima_mensal", "arima", "media_movel", "exponencial"}

C11_Witness ==
    /\ pc_cmp = "fim"
    /\ <<"sarima_anual", "ok">> \in desfechos
    /\ <<"sarima_mensal", "ajuste_falhou">> \in desfechos
    /\ <<"arima", "previsao_falhou">> \in desfechos
    /\ <<"exponencial", "ok">> \in desfechos
    /\ DOMAIN resultados.previsoes = {"sarima_anual", "media_movel", "exponencial"}
    /\ Len(resultados.metricas) = 3

\* the call of run_comparison_for_sku for candidate k raises
CandidatoLevanta ==
    /\ pc = "fase1"
    /\ k <= Len(candidatos)
    /\ csv[candidatos[k]].tipo = "excecao"

\* C12: an exception raised while one candidate is prepared or compared is
\* caught in the loop and becomes the omission of that SKU: the loop goes on
\* with the next candidate, nothing is appended to the pool, and the run is
\* still in phase 1 on its way to the selection.
C12_ExcecaoViraOmissao ==
    [][CandidatoLevanta =>
          /\ k' = k + 1
          /\ lista_300' = lista_300
          /\ pc' = "fase1"]_vars

\* the process has ended
Encerrado == codigo_saida # NADA

\* messages of a level in the log
Mensagens(nivel) == {i \in DOMAIN log : log[i].nivel = nivel}

\* the selection returned early: no result survived the filters (an empty
\* pool included)
SemSobreviventes == pc \in {"retorno_sem_candidatos", "retorno_sem_elegiveis"}

\* C13: when no SKU survives the filters the run is aborted with an error
\* outcome and a message: the process ends with a non-zero status, an error
\* message is in the log, the closing banner of a completed run is not, and
\* no ranking was produced.
C13_PoolVazioAborta ==
    (SemSobreviventes /\ Encerrado) =>
        /\ codigo_saida.codigo # 0
        /\ Mensagens("ERRO") # {}
        /\ \A i \in DOMAIN log : log[i].texto # "CONCLUIDO"
        /\ df_elencacao = NADA

\* the truncation has been done and fewer than N_MELHORES results, but at
\* least one, passed the filters
PoucosSobreviventes ==
    /\ pc \in {"fase3", "concluido"}
    /\ Cardinality(Sobreviventes) >= 1
    /\ Cardinality(Sobreviventes) < N_MELHORES

C15_ConstanteReportadoComoNA ==
    (pc_cmp = "relatado" /\ resultados.teste_constante
        /\ relatorio.tipo = "relatorio") =>
        /\ relatorio.celulas = "N/A"
        /\ relatorio.menor_mae = "N/A"
        /\ ~relatorio.tabela_02

\* C17: the forecast length is n = min(requested horizon, test length): the
\* test series of the result is the first n test observations and every
\* forecast stored in the result has exactly n values, never more than the
\* test set holds.
C17_HorizonteEfetivo ==
    Dividido =>
        /\ (horizonte_previsao <= Len(serie_teste) => n_previsao = horizonte_previsao)
        /\ (horizonte_previsao >= Len(serie_teste) => n_previsao = Len(serie_teste))
        /\ resultados.serie_teste = SubSeq(serie_teste, 1, n_previsao)
        /\ \A c \in DOMAIN resultados.previsoes :
              /\ Len(resultados.previsoes[c]) = n_previsao
              /\ Len(resultados.previsoes[c]) <= Len(serie_teste)

C17_Witness ==
    /\ pc_cmp = "fim"
    /\ Len(serie_teste) > horizonte_previsao
    /\ horizonte_previsao = HORIZONTE_PADRAO
    /\ Len(resultados.serie_teste) = HORIZONTE_PADRAO
    /\ Cardinality(DOMAIN resultados.previsoes) >= 4

\* the ranking has been produced
Elencado == df_elencacao # NADA

\* what an input may add to the score: nothing when it is missing or NaN,
\* its weighted normalised value otherwise
TermoR(linha) ==
    IF linha.rentabilidade.nan THEN 0 ELSE PESO_R * rent_norm(linha.rentabilidade)
TermoU(linha) ==
    IF linha.nivel_urgencia.nan THEN 0 ELSE PESO_U * urgencia_norm(linha.nivel_urgencia)
TermoGP(linha) ==
    IF linha.giro_futuro_previsto.nan THEN 0
    ELSE PESO_G * giro_norm(linha.giro_futuro_previsto)

\* C18: a missing or NaN input adds exactly 0 to its own weighted term of the
\* score: the score of every row of the ranking is the sum of the terms of
\* its defined inputs only.
C18_NanContribuiZero ==
    Elencado =>
        \A i \in DOMAIN df_elencacao.linhas :
            df_elencacao.linhas[i].score_elencacao
                = TermoR(df_elencacao.linhas[i]) + TermoU(df_elencacao.linhas[i])
                      + TermoGP(df_elencacao.linhas[i])

\* C19: the ranking has exactly one row per selected result (rows with NaN
\* inputs included), the rows are in non-increasing order of score, and the
\* ranking column is 1, 2, ..., n.
C19_RankingCompletoOrdenado ==
    Elencado =>
        /\ Len(df_elencacao.linhas) = Len(top10_resultados)
        /\ \A j \in DOMAIN top10_resultados :
              Cardinality({i \in DOMAIN df_elencacao.linhas :
                              df_elencacao.linhas[i].sku = top10_resultados[j].sku}) = 1
        /\ \A i \in DOMAIN df_elencacao.linhas :
              /\ df_elencacao.linhas[i].ranking = i
              /\ i > 1 => df_elencacao.linhas[i - 1].score_elencacao
                              >= df_elencacao.linhas[i].score_elencacao

C19_Witness ==
    /\ Elencado
    /\ Len(df_elencacao.linhas) = N_MELHORES
    /\ df_elencacao.linhas[1].sku # top10_resultados[1].sku
    /\ df_elencacao.linhas[1].score_elencacao > df_elencacao.linhas[2].score_elencacao
    /\ \E i \in DOMAIN df_elencacao.linhas : df_elencacao.linhas[i].rentabilidade.nan
    /\ \E i \in DOMAIN df_elencacao.linhas : df_elencacao.linhas[i].nivel_urgencia.nan

\* ------------------------------------------------------------------------
\* calcular_mape
\* ------------------------------------------------------------------------
MaxPontos == 3

\* the result NaN, and the sum of two rationals
NANQ == Q(0, 0)
SomaQ(a, b) == Q(a.num * b.den + b.num * a.den, a.den * b.den)

RECURSIVE SomaSeqQ(_)
SomaSeqQ(s) ==
    IF s = <<>> THEN Q(0, 1)
    ELSE SomaQ(SomaSeqQ(SubSeq(s, 1, Len(s) - 1)), s[Len(s)])

\* mask = y_real != 0
Mascara(y) == [i \in DOMAIN y |-> y[i] # 0]

\* a[mask]
RECURSIVE Mascarar(_, _)
Mascarar(a, mask) ==
    IF a = <<>> THEN <<>>
    ELSE LET resto == Mascarar(SubSeq(a, 1, Len(a) - 1), SubSeq(mask, 1, Len(a) - 1))
         IN  IF mask[Len(a)] THEN Append(resto, a[Len(a)]) ELSE resto

\* faulty variant: the mean is taken over all the points
calcular_mape_todos(y_r, y_p) ==
    LET mask == Mascara(y_r)
        r == Mascarar(y_r, mask)
        q == Mascarar(y_p, mask)
        soma == SomaSeqQ([i \in DOMAIN r |-> Q(Abs(r[i] - q[i]), Abs(r[i]))])
    IN  IF Len(r) = 0 THEN NANQ
        ELSE Q(100 * soma.num, soma.den * Len(y_r))

\* calcular_mape: np.mean(np.abs((y_real[mask] - y_previsto[mask]) / y_real[mask])) * 100,
\* NaN when the mask selects nothing
calcular_mape(y_r, y_p) ==
    LET mask == Mascara(y_r)
        r == Mascarar(y_r, mask)
        q == Mascarar(y_p, mask)
        soma == SomaSeqQ([i \in DOMAIN r |-> Q(Abs(r[i] - q[i]), Abs(r[i]))])
    IN  IF Len(r) = 0 THEN NANQ
        ELSE Q(100 * soma.num, soma.den * Len(r))

ValoresReais == {-2, 0, 1, 4}
ValoresPrevistos == {0, 1, 3}

InitMet ==
    /\ WfParado
    /\ CkptParado
    /\ ScoreParado
    /\ TreinoParado
    /\ RunParado
    /\ PoolParado
    /\ CmpParado
    /\ PrepParado
    /\ \E n \in 0..MaxPontos :
          /\ arg_y_real \in [1..n -> ValoresReais]
          /\ arg_y_previsto \in [1..n -> ValoresPrevistos]
    /\ mape = NADA
    /\ pc_met = "inicio"

CalcularMape ==
    /\ pc_met = "inicio"
    /\ mape' = calcular_mape(arg_y_real, arg_y_previsto)
    /\ pc_met' = "retornou"
    /\ UNCHANGED <<arg_y_real, arg_y_previsto>>
    /\ UNCHANGED varsForaMet

NextMet == CalcularMape

SpecMet == InitMet /\ [][NextMet]_vars

\* the indices that count, the product of their |actual| and the sum of the
\* absolute errors brought to that common denominator
NaoZero == {i \in DOMAIN arg_y_real : arg_y_real[i] # 0}

RECURSIVE ProdutoReais(_)
ProdutoReais(I) ==
    IF I = {} THEN 1
    ELSE LET i == CHOOSE i \in I : TRUE
         IN  Abs(arg_y_real[i]) * ProdutoReais(I \ {i})

RECURSIVE SomaErros(_)
SomaErros(I) ==
    IF I = {} THEN 0
    ELSE LET i == CHOOSE i \in I : TRUE
         IN  Abs(arg_y_real[i] - arg_y_previsto[i]) * ProdutoReais(NaoZero \ {i})
                 + SomaErros(I \ {i})

\* C16: the MAPE is 100 times the mean of |actual - predicted| / |actual|
\* over exactly the indices whose actual is not 0; removing the points whose
\* actual is 0 from both arrays leaves it unchanged; it is NaN exactly when
\* no index has an actual different from 0.
C16_MapeSobreNaoNulos ==
    pc_met = "retornou" =>
        /\ mape.den = 0 <=> NaoZero = {}
        /\ NaoZero # {} =>
              /\ mape.den > 0
              /\ mape.num * Cardinality(NaoZero) * ProdutoReais(NaoZero)
                     = 100 * SomaErros(NaoZero) * mape.den
        /\ mape = calcular_mape(Mascarar(arg_y_real, Mascara(arg_y_real)),
                                Mascarar(arg_y_previsto, Mascara(arg_y_real)))

C16_Witness ==
    /\ pc_met = "retornou"
    /\ Len(arg_y_real) = 3
    /\ arg_y_real[2] = 0
    /\ arg_y_previsto[2] # 0
    /\ Cardinality(NaoZero) = 2
    /\ mape.num > 0

\* ------------------------------------------------------------------------
\* PrevisorEstoqueSARIMA.preparar_serie_temporal and its cache
\* ------------------------------------------------------------------------
MaxLinhas == 2

\* the rows of df_estoque: days, SKUs and stock levels
Datas == {1, 3}
SkusPrep == {1, 2}
NiveisEstoque == {1, 2}
LinhasEstoque ==
    [data : Datas, sku : SkusPrep, estoque_atual : NiveisEstoque]

Dfs == UNION {[1..n -> LinhasEstoque] : n \in 0..MaxLinhas}

\* df_estoque[df_estoque['sku'] == sku]
LinhasDoSku(df, sku) == SelectSeq(df, LAMBDA linha : linha.sku = sku)

\* sort by day, keep the last row of each day, one value per calendar day
\* from the first to the last day, a day without row taking the value of the
\* day before (asfreq with ffill)
Preparada(df, sku) ==
    LET l == LinhasDoSku(df, sku)
        dias == {l[i].data : i \in DOMAIN l}
        primeiro == CHOOSE d \in dias : \A o \in dias : d <= o
        ultimo == CHOOSE d \in dias : \A o \in dias : d >= o
        ValorEm(d) ==
            LET dia == CHOOSE x \in dias : x <= d /\ \A o \in dias : o <= d => o <= x
                i == CHOOSE i \in DOMAIN l :
                         l[i].data = dia /\ \A j \in DOMAIN l : l[j].data = dia => j <= i
            IN  l[i].estoque_atual
    IN  IF l = <<>> THEN <<>>
        ELSE [j \in 1..(ultimo - primeiro + 1) |->
                 <<primeiro + j - 1, ValorEm(primeiro + j - 1)>>]

Serie(valores) == [tipo |-> "serie", valores |-> valores]

InitPrep ==
    /\ WfParado
    /\ CkptParado
    /\ ScoreParado
    /\ TreinoParado
    /\ RunParado
    /\ PoolParado
    /\ CmpParado
    /\ MetParado
    /\ series_cache = <<>>
    /\ chamada = NADA
    /\ retorno = NADA

\* one call of preparar_serie_temporal on the same object, for a SKU that
\* has rows in df_estoque
PrepararSerie ==
    /\ \E df \in Dfs, sku \in SkusPrep, usar_cache \in BOOLEAN :
          /\ LinhasDoSku(df, sku) # <<>>
          /\ chamada' = [df_estoque |-> df, sku |-> sku, usar_cache |-> usar_cache]
          /\ IF usar_cache /\ sku \in DOMAIN series_cache
             THEN /\ retorno' = Serie(series_cache[sku])
                  /\ UNCHANGED series_cache
             ELSE /\ retorno' = Serie(Preparada(df, sku))
                  /\ series_cache' =
                        IF usar_cache
                        THEN [s \in DOMAIN series_cache \cup {sku} |->
                                 IF s = sku THEN Preparada(df, sku) ELSE series_cache[s]]
                        ELSE series_cache
    /\ UNCHANGED varsForaPrep

NextPrep == PrepararSerie

SpecPrep == InitPrep /\ [][NextPrep]_vars

\* C20: a call for a SKU never returns a cached series that differs from the
\* series its own rows give: the returned series is the one built from the
\* rows of that call.
C20_CacheInvalidadoPorConteudo ==
    chamada # NADA =>
        retorno = Serie(Preparada(chamada.df_estoque, chamada.sku))

\* ------------------------------------------------------------------------
\* run_comparison_for_sku
\* ------------------------------------------------------------------------
MaxObs == 70

\* `if serie is None or len(serie) < 60: return None`
MIN_OBS_COMPARACAO == 60

\* the result of comparar_modelos, as far as the caller is concerned
COMPARADO == [tipo |-> "comparado"]

\* run_comparison_for_sku: None for a SKU without rows or with a short
\* series, the comparison otherwise
run_comparison_for_sku(presente, n_obs) ==
    IF ~presente THEN NENHUM
    ELSE IF n_obs < MIN_OBS_COMPARACAO THEN NENHUM
    ELSE COMPARADO

InitRun ==
    /\ WfParado
    /\ CkptParado
    /\ ScoreParado
    /\ TreinoParado
    /\ PoolParado
    /\ CmpParado
    /\ MetParado
    /\ PrepParado
    /\ run_presente \in BOOLEAN
    /\ run_n_obs \in 0..MaxObs
    /\ run_res = NADA
    /\ pc_run = "inicio"

RunComparison ==
    /\ pc_run = "inicio"
    /\ run_res' = run_comparison_for_sku(run_presente, run_n_obs)
    /\ pc_run' = "retornou"
    /\ UNCHANGED <<run_presente, run_n_obs>>
    /\ UNCHANGED varsForaRun

NextRun == RunComparison

SpecRun == InitRun /\ [][NextRun]_vars

\* C21: the minimum is 30 observations: a SKU whose prepared series has fewer
\* than 30 values is skipped (None, which the pool loop turns into
\* `continue`), and one with 30 or more values is compared.
C21_MinimoTrintaObservacoes ==
    (pc_run = "retornou" /\ run_presente) =>
        /\ run_n_obs < 30 => run_res = NENHUM
        /\ run_n_obs >= 30 => run_res = COMPARADO

\* the identical-prediction diagnostics carried by the returned result
DiagnosticosDoResultado ==
    IF "previsoes_identicas" \in DOMAIN resultados
    THEN resultados.previsoes_identicas
    ELSE {}

\* C22: every pair of variants present in the returned result whose
\* forecasts have equal length and are equal is recorded in the
\* identical-prediction diagnostics of the result, for all pairs among the
\* five variants.
C22_ParesIdenticosRegistrados ==
    pc_cmp = "fim" =>
        ParesIdenticos(resultados.previsoes, TodasVariantes)
            \subseteq DiagnosticosDoResultado

\* the last JANELA training observations (all of them when there are fewer)
UltimosDoTreino ==
    SubSeq(serie_treino, Max2(1, Len(serie_treino) - JANELA + 1), Len(serie_treino))

\* C23: the moving-average baseline cannot fail: once its step has run, the
\* comparison has not been left by an exception and the result holds a
\* moving-average forecast of exactly n values, each the mean of the last 7
\* training observations.
C23_MediaMovelNuncaFalha ==
    "media_movel" \in tentados =>
        /\ pc_cmp # "erro"
        /\ "media_movel" \in DOMAIN resultados.previsoes
        /\ Len(resultados.previsoes["media_movel"]) = n_previsao
        /\ \A i \in 1..n_previsao :
              resultados.previsoes["media_movel"][i] * Len(UltimosDoTreino)
                  = Soma(UltimosDoTreino) * ESCALA

\* ------------------------------------------------------------------------
\* C24: for each selected SKU the ranking row holds the last value of the
\* training series as the current stock, and as GP the sum of the
\* sarima_mensal forecast whenever the result has one, otherwise the sum of
\* a forecast of another variant; GP is missing only when the result has no
\* forecast at all.
ResultadoDoSku(sku) ==
    CHOOSE r \in Range(top10_resultados) : r.sku = sku

C24_EstoqueEGiroDoResultado ==
    Elencado =>
        \A i \in DOMAIN df_elencacao.linhas :
            LET linha == df_elencacao.linhas[i]
                r == ResultadoDoSku(linha.sku)
                gp == linha.giro_futuro_previsto
            IN  /\ linha.estoque_atual = Num(r.serie_treino[Len(r.serie_treino)])
                /\ "sarima_mensal" \in DOMAIN r.previsoes =>
                       gp = Num(Soma(r.previsoes["sarima_mensal"]))
                /\ ("sarima_mensal" \notin DOMAIN r.previsoes /\ DOMAIN r.previsoes # {}) =>
                       \E c \in DOMAIN r.previsoes : gp = Num(Soma(r.previsoes[c]))
                /\ gp.nan => DOMAIN r.previsoes = {}

C24_Witness ==
    /\ Elencado
    /\ \E i \in DOMAIN df_elencacao.linhas :
          LET r == ResultadoDoSku(df_elencacao.linhas[i].sku)
          IN  /\ {"sarima_mensal", "media_movel"} \subseteq DOMAIN r.previsoes
              /\ df_elencacao.linhas[i].giro_futuro_previsto
                     = Num(Soma(r.previsoes["sarima_mensal"]))
    /\ \E i \in DOMAIN df_elencacao.linhas :
          LET r == ResultadoDoSku(df_elencacao.linhas[i].sku)
          IN  /\ "sarima_mensal" \notin DOMAIN r.previsoes
              /\ "exponencial" \in DOMAIN r.previsoes
              /\ df_elencacao.linhas[i].giro_futuro_previsto
                     = Num(Soma(r.previsoes["exponencial"]))

\* ========================================================================
\* PrevisorEstoqueSARIMA.treinar_modelo and the model cache
\* (previsoes/sarima_estoque.py)
\* ========================================================================

\* Series of MinObsTreino - 1 .. MaxObsTreino observations: the first three
\* values and the last one vary, the others are 1
MIN_OBS_TREINO == 30
MaxObsTreino == 31
NiveisTreino == {1, 2}
SeriesTreino ==
    {[i \in 1..n |-> IF i <= 3 THEN m[i] ELSE IF i = n THEN m[4] ELSE 1] :
        m \in [1..4 -> NiveisTreino], n \in (MIN_OBS_TREINO - 1)..MaxObsTreino}

\* hash_data = f"{len(serie)}_{serie.iloc[0]}_{serie.iloc[-1]}_{serie.sum()}";
\* the digest is taken as injective on that text
calcular_hash_serie(st) ==
    <<Len(st), st[1], st[Len(st)], Soma(st)>>

\* A fitted model, with the series it was fitted on
ModeloAjustado(st) == [tipo |-> "modelo", ajustado_em |-> st]

\* carregar_modelo_cache: None when a file is missing or the hash differs
carregar_modelo_cache(sku, st) ==
    IF cache_modelo[sku] = NADA \/ cache_metadata[sku] = NADA THEN NENHUM
    ELSE IF cache_metadata[sku].hash_serie # calcular_hash_serie(st) THEN NENHUM
    ELSE cache_modelo[sku]

InitTreino ==
    /\ WfParado
    /\ CkptParado
    /\ ScoreParado
    /\ PoolParado /\ CmpParado /\ MetParado /\ PrepParado /\ RunParado
    /\ cache_modelo = [s \in SkusTreino |-> NADA]
    /\ cache_metadata = [s \in SkusTreino |-> NADA]
    /\ modelos = [s \in SkusTreino |-> NADA]
    /\ arg_treino \in [tipo : {"args"}, serie : SeriesTreino, sku : SkusTreino,
                        usar_cache : BOOLEAN]
    /\ ret_treino = NADA
    /\ pc_treino = "chamar"

\* treinar_modelo(serie, sku, usar_cache); auto_arima either returns a model
\* fitted on serie or raises
TreinarModelo ==
    /\ pc_treino = "chamar"
    /\ pc_treino' = "retornou"
    /\ LET st == arg_treino.serie
           sku == arg_treino.sku
           modelo_cache == carregar_modelo_cache(sku, st)
       IN  IF Len(st) < MIN_OBS_TREINO
           THEN /\ ret_treino' = NENHUM
                /\ UNCHANGED <<cache_modelo, cache_metadata, modelos>>
           ELSE IF arg_treino.usar_cache /\ modelo_cache # NENHUM
           THEN /\ ret_treino' = modelo_cache
                /\ modelos' = [modelos EXCEPT ![sku] = modelo_cache]
                /\ UNCHANGED <<cache_modelo, cache_metadata>>
           ELSE \/ /\ ret_treino' = ModeloAjustado(st)
                   /\ modelos' = [modelos EXCEPT ![sku] = ModeloAjustado(st)]
                   /\ IF arg_treino.usar_cache
                      THEN /\ cache_modelo' =
                                [cache_modelo EXCEPT ![sku] = ModeloAjustado(st)]
                           /\ cache_metadata' =
                                [cache_metadata EXCEPT ![sku] =
                                    [hash_serie |-> calcular_hash_serie(st),
                                     len_serie |-> Len(st)]]
                      ELSE UNCHANGED <<cache_modelo, cache_metadata>>
                \/ /\ ret_treino' = NENHUM
                   /\ UNCHANGED <<cache_modelo, cache_metadata, modelos>>
    /\ UNCHANGED arg_treino
    /\ UNCHANGED varsForaTreino

\* the caller calls again, with any series
NovaChamadaTreino ==
    /\ pc_treino = "retornou"
    /\ pc_treino' = "chamar"
    /\ arg_treino' \in [tipo : {"args"}, serie : SeriesTreino, sku : SkusTreino,
                         usar_cache : BOOLEAN]
    /\ ret_treino' = NADA
    /\ UNCHANGED <<cache_modelo, cache_metadata, modelos>>
    /\ UNCHANGED varsForaTreino

NextTreino == TreinarModelo \/ NovaChamadaTreino
SpecTreino == InitTreino /\ [][NextTreino]_vars

\* C25: with the cache enabled, a model returned by treinar_modelo was fitted
\* on a series of the same content as the series passed; a series of other
\* content is never answered from the cache.
C25_ModeloDoCacheEDaMesmaSerie ==
    (pc_treino = "retornou" /\ arg_treino.usar_cache /\ ret_treino # NENHUM) =>
        ret_treino.ajustado_em = arg_treino.serie

\* ------------------------------------------------------------------------
\* C26: in the pool selection, entries of equal best MAE are ordered by SKU
\* identifier ascending, so that the selected list is the same for every
\* order of the candidates.
C26_EmpateOrdenadoPorSku ==
    Selecionado =>
        \A i, j \in DOMAIN top10_resultados :
            (i < j /\ IgualQ(MelhorMae(top10_resultados[i]),
                             MelhorMae(top10_resultados[j])))
                => top10_resultados[i].sku < top10_resultados[j].sku

\* ========================================================================
\* calcular_score_elencacao (previsoes/teste_elencacao_3_skus.py) beside
\* _score_elencacao (gerar_figuras_tcc.py)
\* ========================================================================

\* calcular_score_elencacao with the default weights, on plain numbers, in
\* tenths of UNIDADE like score_elencacao
calcular_score_elencacao(rentabilidade, nivel_urgencia, giro_futuro_previsto) ==
    LET r_norm == IF rentabilidade > 0
                  THEN Min2(UNIDADE, (rentabilidade * UNIDADE) \div 100) ELSE 0
        u_norm == IF nivel_urgencia > 0
                  THEN Min2(UNIDADE, UNIDADE \div (1 + nivel_urgencia)) ELSE UNIDADE
        g_norm == IF giro_futuro_previsto > 0
                  THEN Min2(UNIDADE, (giro_futuro_previsto * UNIDADE) \div 1000) ELSE 0
    IN  PESO_R * r_norm + PESO_U * u_norm + PESO_G * g_norm

\* Defined numbers, negative and zero included; 1 + u divides UNIDADE for
\* every positive urgency
RentabilidadesScore == {-5, 0, 50, 100, 250}
UrgenciasScore == {-2, -1, 0, 1, 2, 3, 5}
GirosScore == {-100, 0, 300, 1000, 2000}

InitScore ==
    /\ WfParado
    /\ CkptParado
    /\ PoolParado /\ CmpParado /\ MetParado /\ PrepParado /\ RunParado /\ TreinoParado
    /\ arg_score \in [tipo : {"args"}, r : RentabilidadesScore, u : UrgenciasScore,
                       gp : GirosScore]
    /\ ret_figuras = NADA
    /\ ret_teste = NADA
    /\ pc_score = "chamar"

\* both functions are called with the same triple
CalcularScores ==
    /\ pc_score = "chamar"
    /\ pc_score' = "retornou"
    /\ ret_figuras' = [tipo |-> "score",
                       v |-> score_elencacao(Num(arg_score.r), Num(arg_score.u),
                                             Num(arg_score.gp))]
    /\ ret_teste' = [tipo |-> "score",
                     v |-> calcular_score_elencacao(arg_score.r, arg_score.u,
                                                    arg_score.gp)]
    /\ UNCHANGED arg_score
    /\ UNCHANGED varsForaScore

NextScore == CalcularScores
SpecScore == InitScore /\ [][NextScore]_vars

\* C27: for every triple of defined numbers, negative and zero included,
\* _score_elencacao and calcular_score_elencacao return the same score.
C27_ScoresIguais ==
    pc_score = "retornou" => ret_figuras.v = ret_teste.v

\* ========================================================================
\* The checkpointed top-SKU run (modelos/comparacao_top_skus_otimizado.py)
\* ========================================================================

\* giro.head(20)['sku']: the same list in every run, the data do not change
MaxSkusCkpt == 3
TOP_GIRO == [i \in 1..MaxSkusCkpt |-> i]
N_POR_RUN == 10

\* carregar_checkpoint: the stored SKUs; the empty set when the file is
\* absent or json.load raises
carregar_checkpoint(arquivo) ==
    IF arquivo.tipo = "ok" THEN arquivo.skus ELSE {}

InitCkpt ==
    /\ WfParado
    /\ PoolParado /\ CmpParado /\ MetParado /\ PrepParado /\ RunParado /\ TreinoParado
    /\ ScoreParado
    /\ ck_dados \in [Range(TOP_GIRO) -> {"curta", "falha", "ok"}]
    /\ ck_arquivo = ARQUIVO_AUSENTE
    /\ ck_salvos = {}
    /\ ck_fila = <<>>
    /\ ck_local = {}
    /\ ck_historico = {}
    /\ pc_ckpt = "parado"

\* main up to the loop: top_skus = [sku for sku in top_skus
\*                                  if str(sku) not in skus_processados][:10]
IniciarRun ==
    /\ pc_ckpt = "parado"
    /\ LET skus_processados == carregar_checkpoint(ck_arquivo)
           top_skus == Fatia(SelectSeq(TOP_GIRO, LAMBDA x : x \notin skus_processados),
                             0, N_POR_RUN)
       IN  /\ ck_fila' = top_skus
           /\ pc_ckpt' = IF top_skus = <<>> THEN "parado" ELSE "loop"
    /\ UNCHANGED <<ck_dados, ck_arquivo, ck_salvos, ck_local, ck_historico>>
    /\ UNCHANGED varsForaCkpt

\* processar_sku_completo up to salvar_resultado_sku: a short series is
\* skipped, an exception is caught, both return False
ProcessarSku ==
    /\ pc_ckpt = "loop"
    /\ ck_fila # <<>>
    /\ LET sku == Head(ck_fila)
       IN  IF ck_dados[sku] = "ok"
           THEN /\ ck_salvos' = ck_salvos \cup {sku}
                /\ pc_ckpt' = "checkpoint"
                /\ UNCHANGED ck_fila
           ELSE /\ ck_fila' = Tail(ck_fila)
                /\ UNCHANGED <<ck_salvos, pc_ckpt>>
    /\ UNCHANGED <<ck_dados, ck_arquivo, ck_local, ck_historico>>
    /\ UNCHANGED varsForaCkpt

\* salvar_checkpoint, first half: the stored set is read, the SKU added and
\* the file opened with mode 'w', which empties it
AbrirCheckpoint ==
    /\ pc_ckpt = "checkpoint"
    /\ ck_local' = carregar_checkpoint(ck_arquivo) \cup {Head(ck_fila)}
    /\ ck_arquivo' = [tipo |-> "ilegivel", skus |-> {}]
    /\ pc_ckpt' = "gravando"
    /\ UNCHANGED <<ck_dados, ck_salvos, ck_fila, ck_historico>>
    /\ UNCHANGED varsForaCkpt

\* salvar_checkpoint, second half: json.dump and close
GravarCheckpoint ==
    /\ pc_ckpt = "gravando"
    /\ ck_arquivo' = [tipo |-> "ok", skus |-> ck_local]
    /\ ck_historico' = ck_historico \cup ck_local
    /\ ck_fila' = Tail(ck_fila)
    /\ pc_ckpt' = "loop"
    /\ UNCHANGED <<ck_dados, ck_salvos, ck_local>>
    /\ UNCHANGED varsForaCkpt

\* the loop is over: gerar_relatorio_final and return
FimDoRun ==
    /\ pc_ckpt = "loop"
    /\ ck_fila = <<>>
    /\ pc_ckpt' = "parado"
    /\ UNCHANGED <<ck_dados, ck_arquivo, ck_salvos, ck_fila, ck_local, ck_historico>>
    /\ UNCHANGED varsForaCkpt

\* KeyboardInterrupt (or the process is killed) anywhere in the run; the
\* files stay as they are
Interromper ==
    /\ pc_ckpt \in {"loop", "checkpoint", "gravando"}
    /\ pc_ckpt' = "parado"
    /\ ck_fila' = <<>>
    /\ UNCHANGED <<ck_dados, ck_arquivo, ck_salvos, ck_local, ck_historico>>
    /\ UNCHANGED varsForaCkpt

NextCkpt ==
    \/ IniciarRun
    \/ ProcessarSku
    \/ AbrirCheckpoint
    \/ GravarCheckpoint
    \/ FimDoRun
    \/ Interromper

SpecCkpt == InitCkpt /\ [][NextCkpt]_vars

\* C28: over any sequence of runs and interruptions, a SKU is recorded in
\* the checkpoint only after its result has been saved, the set of recorded
\* SKUs never shrinks (outside the write of the file itself, every SKU that
\* was recorded is still recorded), and a SKU that was recorded is never
\* processed again.
Registrados == carregar_checkpoint(ck_arquivo)

C28_CheckpointMonotono ==
    [][/\ pc_ckpt' # "gravando" =>
             /\ Registrados' \subseteq ck_salvos'
             /\ ck_historico' \subseteq Registrados'
       /\ (pc_ckpt = "loop" /\ ck_fila # <<>>) => Head(ck_fila) \notin ck_historico]_vars

\* ------------------------------------------------------------------------
\* C29: after every step of comparar_modelos and in the result it returns,
\* 'modelos' and 'previsoes' have the same keys and 'metricas' holds exactly
\* one row for each of these variants, whatever variants fail.
VariantesDasMetricas ==
    {ChaveDe(resultados.metricas[i].modelo) : i \in DOMAIN resultados.metricas}

C29_MesmasVariantes ==
    (pc_cmp \notin {"parado", "inicio"}) =>
        /\ DOMAIN resultados.modelos = DOMAIN resultados.previsoes
        /\ VariantesDasMetricas = DOMAIN resultados.modelos
        /\ Len(resultados.metricas) = Cardinality(DOMAIN resultados.modelos)

C29_Witness ==
    /\ pc_cmp = "fim"
    /\ {"sarima_mensal", "arima", "exponencial"} \subseteq tentados
    /\ DOMAIN resultados.modelos = {"arima", "media_movel"}
    /\ Len(resultados.metricas) = 2

\* ========================================================================
\* ValidacaoWalkForward.executar_validacao
\* (validacao/validacao_walk_forward_sarima.py)
\* ========================================================================

MaxSerieWf == 12
MaxPasso == 2
LIMITE_FOLDS == 100
PercentuaisTreino == {0, 50, 70, 100}
PercentuaisTeste == {10, 30}

\* n_teste = max(1, int(n_total * self.tamanho_teste))
NTeste(args) == Max2(1, (args.n_total * args.tamanho_teste) \div 100)

\* the series by its positions, for the two iloc slices
SerieWf(args) == [i \in 1..args.n_total |-> i]

InitWf ==
    /\ PoolParado /\ CmpParado /\ MetParado /\ PrepParado /\ RunParado /\ TreinoParado
    /\ ScoreParado /\ CkptParado
    /\ wf_args \in [tipo : {"args"}, n_total : 0..MaxSerieWf,
                     tamanho_treino_inicial : PercentuaisTreino,
                     tamanho_teste : PercentuaisTeste, passo : 0..MaxPasso]
    /\ wf_pos = 0
    /\ wf_fold = 0
    /\ wf_n_res = 0
    /\ wf_ultimo = NADA
    /\ pc_wf = "inicio"

\* pos_treino_fim = int(n_total * self.tamanho_treino_inicial); fold = 1
WfInicio ==
    /\ pc_wf = "inicio"
    /\ wf_pos' = (wf_args.n_total * wf_args.tamanho_treino_inicial) \div 100
    /\ wf_fold' = 1
    /\ pc_wf' = "laco"
    /\ UNCHANGED <<wf_args, wf_n_res, wf_ultimo>>
    /\ UNCHANGED varsForaWf

\* faulty variant: the loop has no limit of folds
WfFold_semLimite ==
    /\ pc_wf = "laco"
    /\ wf_pos + NTeste(wf_args) <= wf_args.n_total
    /\ \E falhou \in BOOLEAN :
          wf_ultimo' =
              [tipo |-> "fold", fold |-> wf_fold, erro |-> falhou,
               tamanho_treino |-> Len(Fatia(SerieWf(wf_args), 0, wf_pos)),
               tamanho_teste |-> Len(Fatia(SerieWf(wf_args), wf_pos,
                                           wf_pos + NTeste(wf_args))),
               indice_teste_inicio |-> wf_pos,
               indice_teste_fim |-> wf_pos + NTeste(wf_args) - 1]
    /\ wf_n_res' = wf_n_res + 1
    /\ wf_pos' = wf_pos + wf_args.passo
    /\ wf_fold' = wf_fold + 1
    /\ pc_wf' = "laco"
    /\ UNCHANGED wf_args
    /\ UNCHANGED varsForaWf

\* one pass of the while loop: the two windows are cut, the fold is fitted
\* and evaluated (or fails) and its entry appended, the position advances,
\* and the loop is left when fold > 100
WfFold ==
    /\ pc_wf = "laco"
    /\ wf_pos + NTeste(wf_args) <= wf_args.n_total
    /\ \E falhou \in BOOLEAN :
          wf_ultimo' =
              [tipo |-> "fold", fold |-> wf_fold, erro |-> falhou,
               tamanho_treino |-> Len(Fatia(SerieWf(wf_args), 0, wf_pos)),
               tamanho_teste |-> Len(Fatia(SerieWf(wf_args), wf_pos,
                                           wf_pos + NTeste(wf_args))),
               indice_teste_inicio |-> wf_pos,
               indice_teste_fim |-> wf_pos + NTeste(wf_args) - 1]
    /\ wf_n_res' = wf_n_res + 1
    /\ wf_pos' = wf_pos + wf_args.passo
    /\ wf_fold' = wf_fold + 1
    /\ pc_wf' = IF wf_fold + 1 > LIMITE_FOLDS THEN "fim" ELSE "laco"
    /\ UNCHANGED wf_args
    /\ UNCHANGED varsForaWf

\* the condition of the while loop is false
WfSaida ==
    /\ pc_wf = "laco"
    /\ ~(wf_pos + NTeste(wf_args) <= wf_args.n_total)
    /\ pc_wf' = "fim"
    /\ UNCHANGED <<wf_args, wf_pos, wf_fold, wf_n_res, wf_ultimo>>
    /\ UNCHANGED varsForaWf

NextWf == WfInicio \/ WfFold \/ WfSaida

\* the method is a sequential loop: it keeps running while a step is enabled
SpecWf == InitWf /\ [][NextWf]_vars /\ WF_vars(NextWf)

\* C30: executar_validacao terminates for every series and every step
\* passo >= 0 after at most 100 folds; in every fold the training window is
\* the prefix that ends where the test window begins, the test window has
\* max(1, floor(n * tamanho_teste)) observations and lies inside the series.
FoldCorreto ==
    wf_ultimo # NADA =>
        /\ wf_ultimo.tamanho_treino = wf_ultimo.indice_teste_inicio
        /\ wf_ultimo.tamanho_teste = Max2(1, (wf_args.n_total * wf_args.tamanho_teste) \div 100)
        /\ wf_ultimo.indice_teste_fim
              = wf_ultimo.indice_teste_inicio + wf_ultimo.tamanho_teste - 1
        /\ wf_ultimo.indice_teste_inicio >= 0
        /\ wf_ultimo.indice_teste_fim <= wf_args.n_total - 1

C30_TerminaEmCemFolds ==
    /\ [](wf_n_res <= 100 /\ FoldCorreto)
    /\ <>(pc_wf = "fim")

C30_Witness ==
    /\ pc_wf = "fim"
    /\ wf_args.passo = 0
    /\ wf_n_res = 100
    /\ wf_ultimo.tamanho_teste > 1

====
